---- MODULE Spec2Model ----
(***************************************************************************)
(* Inspection ingestion and damage-assessment pipeline of                  *)
(* app/api/v1/inspections/routes.py.                                        *)
(*                                                                         *)
(* The database tables inspections, inspection_images and                  *)
(* damage_assessments are the state.  Every request handler is a process   *)
(* that runs in a request slot; a handler is cut at its suspension points  *)
(* (each awaited database statement is one atomic step, executed together  *)
(* with the synchronous code that precedes it), so that two requests       *)
(* interleave exactly where the event loop (or a second worker process)    *)
(* lets them.                                                              *)
(***************************************************************************)
EXTENDS Integers, Sequences, FiniteSets, TLC

\* ------------------------------------------------------------------ bounds
\* total number of requests issued in one behaviour
MaxReqs == 2
\* number of upload requests that may create an inspection
MaxInspections == 2
\* the wall clock runs from 0 to MaxClock
MaxClock == 1
\* number of files in an extracted archive handed to the parser
MaxFiles == 3

\* request slots: at most two requests are in flight at any time
Slots == {1, 2}

\* ------------------------------------------------------------ value domains
\* Python None / SQL NULL for text columns
Null == "null"

\* a JSONB column holding either JSON null or a JSON array
JNull == [isnull |-> TRUE, items |-> <<>>]
JList(s) == [isnull |-> FALSE, items |-> s]

\* class _Service constants
VALID_BLADES == <<"BladeA", "BladeB", "BladeC">>
VALID_SURFACES == <<"PS", "LE", "TE", "SS">>
VALID_IMAGE_EXTENSIONS == {".jpg", ".jpeg", ".png", ".bmp"}

\* required_fields of update_assessment, allowed_fields of
\* partial_update_bounding_box (the same six names)
required_fields == {"x", "y", "width", "height", "type", "confidence"}
allowed_fields == {"x", "y", "width", "height", "type", "confidence"}

\* InspectionStatus / ImageStatus values
InspectionStatus == {"uploaded", "processing", "completed", "failed"}
ImageStatus == {"uploaded", "processing", "analyzed", "reviewed", "failed"}

\* boxes as the detector emits them: coordinates in 1/10 of the image size,
\* confidence in 1/10
BoxA == [x |-> 5, y |-> 5, width |-> 2, height |-> 2, type |-> "LV_3", confidence |-> 8]
BoxB == [x |-> 3, y |-> 7, width |-> 1, height |-> 4, type |-> "LV_4", confidence |-> 6]
BoxC == [x |-> 6, y |-> 2, width |-> 3, height |-> 3, type |-> "LV_2", confidence |-> 4]

\* what one call of model.predict can do: raise, or return a list of boxes
DetectorOutcomes == {"raise", "boxes"}
DetectedLists == {<<>>, <<BoxA, BoxB, BoxC>>}

\* the one turbine that exists, and an id that names no turbine
Turbines == {"t1"}
TurbineInputs == {"t1", "t9"}

\* image ids a caller may name: the ids uploads hand out, and one more
ImageIdInputs == 1..3
InspectionIdInputs == 1..2

\* ------------------------------------------------------------------- state
VARIABLES
    inspections,    \* inspections table: id -> row
    images,         \* inspection_images table: id -> row
    assessments,    \* damage_assessments table: id -> row
    now,            \* datetime.now()
    fresh,          \* next uuid of each table
    req,            \* request slots: the handler running in each
    issued,         \* number of requests issued so far
    turbines,       \* turbines table: the ids of its rows
    disk            \* the files and directories under the upload and storage roots

vars == <<inspections, images, assessments, now, fresh, req, issued, turbines, disk>>

Idle == [op |-> "none", pc |-> "idle"]

\* ------------------------------------------------------------- table helpers
\* INSERT one row
Insert(table, id, row) ==
    [k \in DOMAIN table \cup {id} |-> IF k = id THEN row ELSE table[k]]

\* DELETE ... WHERE id IN ids
DeleteIds(table, ids) == [k \in DOMAIN table \ ids |-> table[k]]

\* ids of the assessment rows of one image
AssessmentsOf(image_id) ==
    {a \in DOMAIN assessments : assessments[a].inspection_image_id = image_id}

\* ids of the image rows of one inspection
ImagesOf(inspection_id) ==
    {m \in DOMAIN images : images[m].inspection_id = inspection_id}

\* a handler ends with a response
Done(s, res) == [op |-> req[s].op, pc |-> "done", arg |-> req[s].arg, res |-> res]

HTTPException(code, detail) == [status |-> "http_error", code |-> code, detail |-> detail]

\* no response is waiting to be sent: a finished handler's response leaves
\* before any other step is taken (sending it touches no shared state)
NoneDone == \A t \in Slots : req[t].pc # "done"

\* the handler in slot s is at step p
At(s, p) == NoneDone /\ req[s].pc = p

\* a new request takes the lowest free slot
Free(s) ==
    /\ At(s, "idle")
    /\ \A t \in Slots : t < s => req[t].pc # "idle"
    /\ issued < MaxReqs

\* the response of a finished handler is sent and its slot is free again
respond(s) ==
    /\ req[s].pc = "done"
    /\ req' = [req EXCEPT ![s] = Idle]
    /\ UNCHANGED <<turbines, disk, inspections, images, assessments, now, fresh, issued>>

\* time passes; only an instant that some row records needs a successor
Tick ==
    /\ NoneDone
    /\ now < MaxClock
    /\ \E a \in DOMAIN assessments :
          assessments[a].ai_processed_at = now \/ assessments[a].updated_at = now
    /\ now' = now + 1
    /\ UNCHANGED <<turbines, disk, inspections, images, assessments, fresh, req, issued>>

\* ---------------------------------------------------------------- analyze
\* a test of the detection result that looks at the list of boxes instead of
\* the dict (if not detection_result["bounding_boxes"])
TruthyBoxes(d) == d.bounding_boxes # <<>>

\* truth value of a Python dict: a dict is false only when it has no key
Truthy(d) == DOMAIN d # {}

\* _yolov8_detect: the dict it returns for the boxes the model found
yolov8_detect(boxes) == [bounding_boxes |-> boxes]

\* _Service.get_turbine_id_from_image: inspection_images JOIN inspections
get_turbine_id_from_image(image_id) ==
    IF image_id \in DOMAIN images /\ images[image_id].inspection_id \in DOMAIN inspections
    THEN inspections[images[image_id].inspection_id].turbine_id
    ELSE Null

\* UPDATE table SET ... WHERE id = id: the row with that id becomes row, which
\* the caller computes from table[id] (no such row: no effect)
UpdateWhereId(table, id, row) ==
    [k \in DOMAIN table |-> IF k = id THEN row ELSE table[k]]

\* the values analyze_one_image writes on the image row, before and after
\* detection
MarkProcessing(row) == [row EXCEPT !.status = "processing"]
MarkFailed(row) == [row EXCEPT !.status = "failed"]
\* the last UPDATE writing another member of ImageStatus
MarkReviewed(row) == [row EXCEPT !.status = "reviewed", !.checked_flag = "Processed"]
MarkAnalyzed(row) == [row EXCEPT !.status = "analyzed", !.checked_flag = "Processed"]

\* an UPDATE whose data_ass also carries description = None, as the INSERT's
\* row would
AnalyzeUpdateRowWithDescription(row, boxes, t) ==
    [row EXCEPT !.ai_bounding_boxes = JList(boxes), !.ai_processed_at = t,
                !.description = Null, !.updated_at = t]

\* the columns analyze_one_image writes on an existing assessment (data_ass)
AnalyzeUpdateRow(row, boxes, t) ==
    [row EXCEPT !.ai_bounding_boxes = JList(boxes), !.ai_processed_at = t, !.updated_at = t]

\* the row analyze_one_image inserts when it found no assessment
AnalyzeInsertRow(image_id, boxes, t) ==
    [inspection_image_id |-> image_id, ai_bounding_boxes |-> JList(boxes),
     ai_processed_at |-> t, description |-> Null, updated_at |-> t]

\* an UPDATE that recounts nothing and only sets the status
BumpInspectionStatusOnly(row) == [row EXCEPT !.status = "processing"]

\* an UPDATE that closes the inspection when its last image is counted
BumpInspectionCompletes(row) ==
    [row EXCEPT !.processed_images = @ + 1,
                !.status = IF row.processed_images + 1 >= row.total_images
                           THEN "completed" ELSE "processing"]

\* an UPDATE that leaves the status of a closed inspection alone
BumpInspectionKeepsClosed(row) ==
    [row EXCEPT !.processed_images = @ + 1,
                !.status = IF row.status \in {"completed", "failed"}
                           THEN row.status ELSE "processing"]

\* an UPDATE that keeps the counter within total_images
BumpInspectionCapped(row) ==
    [row EXCEPT !.processed_images = IF @ + 1 > row.total_images THEN @ ELSE @ + 1,
                !.status = "processing"]

\* UPDATE inspections SET processed_images = processed_images + 1, status = 'processing'
BumpInspection(row) ==
    [row EXCEPT !.processed_images = @ + 1, !.status = "processing"]

\* route analyze_one_image and the head of _Service.analyze_one_image:
\* get_turbine_id_from_image, check_turbine_access, get_image
analyze_route(s) ==
    \E image_id \in ImageIdInputs, allowed \in BOOLEAN :
        /\ Free(s)
        /\ issued' = issued + 1
        /\ LET arg == [image_id |-> image_id]
               end(res) == [op |-> "analyze", pc |-> "done", arg |-> arg, res |-> res]
           IN
           IF get_turbine_id_from_image(image_id) = Null
           THEN /\ allowed
                /\ req' = [req EXCEPT ![s] = end(HTTPException(404, "image"))]
           ELSE IF ~allowed
           THEN req' = [req EXCEPT ![s] = end(HTTPException(403, "access"))]
           ELSE IF image_id \notin DOMAIN images
           THEN req' = [req EXCEPT ![s] = end(HTTPException(404, "image"))]
           ELSE req' = [req EXCEPT ![s] = [op |-> "analyze", pc |-> "an_set_processing",
                                           arg |-> arg, loc |-> [img |-> images[image_id]]]]
        /\ UNCHANGED <<turbines, disk, inspections, images, assessments, now, fresh>>

\* analyze_one_image: UPDATE status = PROCESSING
analyze_set_processing(s) ==
    /\ At(s, "an_set_processing")
    /\ images' = UpdateWhereId(images, req[s].arg.image_id,
                              MarkProcessing(images[req[s].arg.image_id]))
    /\ req' = [req EXCEPT ![s].pc = "an_detect"]
    /\ UNCHANGED <<turbines, disk, inspections, assessments, now, fresh, issued>>

\* analyze_one_image from the detector's outcome on: either give up (FAILED)
\* or look for the image's assessment
analyze_after_detect(s) ==
    /\ LET image_id == req[s].arg.image_id IN
       \E outcome \in DetectorOutcomes, boxes \in DetectedLists :
        IF outcome = "raise"
        THEN \* model.predict raised: nothing catches it
             /\ boxes = <<>>
             /\ req' = [req EXCEPT ![s] = Done(s, [status |-> "exception", detail |-> "detector", detector |-> "raise"])]
             /\ UNCHANGED images
        ELSE LET detection_result == yolov8_detect(boxes) IN
             IF ~Truthy(detection_result)
             THEN /\ images' = UpdateWhereId(images, image_id, MarkFailed(images[image_id]))
                  /\ req' = [req EXCEPT ![s] = Done(s, [status |-> "failed", detector |-> "boxes"])]
             ELSE /\ UNCHANGED images
                  /\ \E existing \in (IF AssessmentsOf(image_id) = {} THEN {0}
                                      ELSE AssessmentsOf(image_id)) :
                        req' = [req EXCEPT ![s].pc = "an_save",
                                    ![s].loc = [img |-> req[s].loc.img,
                                                boxes |-> detection_result.bounding_boxes,
                                                existing |-> existing,
                                                user_description |->
                                                    IF existing = 0 THEN Null
                                                    ELSE assessments[existing].description]]
    /\ UNCHANGED <<turbines, disk, inspections, assessments, now, fresh, issued>>

\* analyze_one_image: run the detector and go on from its outcome
analyze_detect(s) == At(s, "an_detect") /\ analyze_after_detect(s)

\* an UPDATE of the assessment found that keeps the description by writing
\* back the one read with the row
analyze_save_writes_back_description(s) ==
    /\ At(s, "an_save")
    /\ req[s].loc.existing \in DOMAIN assessments
    /\ assessments' = UpdateWhereId(assessments, req[s].loc.existing,
                                    [AnalyzeUpdateRow(assessments[req[s].loc.existing],
                                                      req[s].loc.boxes, now)
                                        EXCEPT !.description = req[s].loc.user_description])
    /\ req' = [req EXCEPT ![s].pc = "an_mark",
                          ![s].loc = [img |-> req[s].loc.img, boxes |-> req[s].loc.boxes,
                                      ass_id |-> req[s].loc.existing,
                                      user_description |-> req[s].loc.user_description]]
    /\ UNCHANGED <<turbines, disk, inspections, images, now, issued, fresh>>

\* analyze_one_image: UPDATE the assessment found, or INSERT a new one
analyze_save(s) ==
    /\ At(s, "an_save")
    /\ LET image_id == req[s].arg.image_id
           existing == req[s].loc.existing
           boxes == req[s].loc.boxes
       IN
       IF existing # 0
       THEN \* UPDATE ... WHERE id = existing["id"]: no row, no effect
            /\ assessments' = UpdateWhereId(assessments, existing,
                                            AnalyzeUpdateRow(assessments[existing], boxes, now))
            /\ req' = [req EXCEPT ![s].pc = "an_mark",
                                  ![s].loc = [img |-> req[s].loc.img, boxes |-> boxes,
                                              ass_id |-> existing,
                                              user_description |-> req[s].loc.user_description]]
            /\ UNCHANGED fresh
       ELSE IF image_id \notin DOMAIN images
       THEN \* the foreign key to inspection_images rejects the INSERT
            /\ req' = [req EXCEPT ![s] = Done(s, [status |-> "exception", detail |-> "foreign_key"])]
            /\ UNCHANGED <<assessments, fresh>>
       ELSE /\ assessments' = Insert(assessments, fresh.assessment,
                                     AnalyzeInsertRow(image_id, boxes, now))
            /\ fresh' = [fresh EXCEPT !.assessment = @ + 1]
            /\ req' = [req EXCEPT ![s].pc = "an_mark",
                                  ![s].loc = [img |-> req[s].loc.img, boxes |-> boxes,
                                              ass_id |-> fresh.assessment,
                                              user_description |-> req[s].loc.user_description]]
    /\ UNCHANGED <<turbines, disk, inspections, images, now, issued>>

\* analyze_one_image: UPDATE status = ANALYZED, checked_flag = 'Processed'
analyze_mark(s) ==
    /\ At(s, "an_mark")
    /\ images' = UpdateWhereId(images, req[s].arg.image_id,
                              MarkAnalyzed(images[req[s].arg.image_id]))
    /\ req' = [req EXCEPT ![s].pc = "an_bump"]
    /\ UNCHANGED <<turbines, disk, inspections, assessments, now, fresh, issued>>

\* analyze_one_image: bump the inspection's counter and return
analyze_bump(s) ==
    /\ At(s, "an_bump")
    /\ inspections' = UpdateWhereId(inspections, req[s].loc.img.inspection_id,
                                   BumpInspection(inspections[req[s].loc.img.inspection_id]))
    /\ req' = [req EXCEPT ![s] =
                 Done(s, [status |-> "analyzed", detector |-> "boxes",
                          assessment_id |-> req[s].loc.ass_id,
                          ai_bounding_boxes |-> req[s].loc.boxes,
                          description |-> req[s].loc.user_description])]
    /\ UNCHANGED <<turbines, disk, images, assessments, now, fresh, issued>>

\* ----------------------------------------------------------------- upload
\* one file of an extracted archive: the directories above it, its stem and suffix
File(dirs, stem, suffix) == [dirs |-> dirs, stem |-> stem, suffix |-> suffix]

\* the archives a caller uploads
ArchiveTwo == {File(<<"BladeA", "PS">>, "img1", ".jpg"), File(<<"BladeA", "LE">>, "img2", ".jpg")}
ArchiveWrapped == {File(<<"upload", "BladeB", "SS">>, "IMG_0082_D", ".JPG"),
                   File(<<"upload", "BladeB", "SS">>, "notes", ".txt")}
ArchiveLoose == {File(<<>>, "photo", ".png"), File(<<"BladeD", "PS">>, "x", ".jpg")}
Archives == {ArchiveTwo, ArchiveWrapped, ArchiveLoose}

\* str.lower() on the suffixes that occur
Lower(suffix) ==
    CASE suffix = ".JPG" -> ".jpg"
      [] suffix = ".JPEG" -> ".jpeg"
      [] suffix = ".PNG" -> ".png"
      [] suffix = ".BMP" -> ".bmp"
      [] suffix = ".TXT" -> ".txt"
      [] OTHER -> suffix

\* a set as a sequence, in the order the directory listing yields it
RECURSIVE SeqOfSet(_)
SeqOfSet(S) ==
    IF S = {} THEN <<>>
    ELSE LET e == CHOOSE x \in S : TRUE IN <<e>> \o SeqOfSet(S \ {e})

\* [d for d in extract_dir.iterdir() if d.is_dir()]
TopDirs(tree) == {f.dirs[1] : f \in {g \in tree : Len(g.dirs) > 0}}

\* a scan that takes every file of the surface directory, whatever its suffix
ScanDirAnySuffix(tree, root, blade, surf) ==
    LET here == {f \in tree : f.dirs = root \o <<blade, surf>>}
    IN SeqOfSet({[blade |-> blade, surface |-> surf, filename |-> [stem |-> f.stem, suffix |-> f.suffix]]
                 : f \in here})

\* the descriptors of the image files directly inside root/blade/surf
ScanDir(tree, root, blade, surf) ==
    LET here == {f \in tree : f.dirs = root \o <<blade, surf>>
                              /\ Lower(f.suffix) \in VALID_IMAGE_EXTENSIONS}
    IN SeqOfSet({[blade |-> blade, surface |-> surf, filename |-> [stem |-> f.stem, suffix |-> f.suffix]]
                 : f \in here})

\* the loops over VALID_BLADES and VALID_SURFACES under one root, from pair k on
RECURSIVE ScanRoot(_, _, _)
ScanRoot(tree, root, k) ==
    IF k > Len(VALID_BLADES) * Len(VALID_SURFACES) THEN <<>>
    ELSE LET blade == VALID_BLADES[((k - 1) \div Len(VALID_SURFACES)) + 1]
             surf == VALID_SURFACES[((k - 1) % Len(VALID_SURFACES)) + 1]
         IN ScanDir(tree, root, blade, surf) \o ScanRoot(tree, root, k + 1)

\* a parser that, when the taxonomy yields nothing, takes the image files
\* lying loose at the root
parse_zipLooseFallback(tree) ==
    LET subs == TopDirs(tree)
        atRoot == ScanRoot(tree, <<>>, 1)
        inSub == IF Cardinality(subs) = 1
                 THEN ScanRoot(tree, <<CHOOSE d \in subs : TRUE>>, 1) ELSE <<>>
        loose == {f \in tree : f.dirs = <<>> /\ Lower(f.suffix) \in VALID_IMAGE_EXTENSIONS}
    IN IF atRoot # <<>> THEN atRoot
       ELSE IF inSub # <<>> THEN inSub
       ELSE SeqOfSet({[blade |-> "BladeA", surface |-> "PS",
                       filename |-> [stem |-> f.stem, suffix |-> f.suffix]] : f \in loose})

\* _Service._parse_zip
parse_zip(tree) ==
    LET subs == TopDirs(tree)
        atRoot == ScanRoot(tree, <<>>, 1)
    IN IF atRoot # <<>> THEN atRoot
       ELSE IF Cardinality(subs) = 1
            THEN ScanRoot(tree, <<CHOOSE d \in subs : TRUE>>, 1)
            ELSE <<>>

\* the files extracted archives are made of: inside and outside the taxonomy,
\* with allowed and disallowed suffixes, at the root and under a folder
FilePool ==
    {File(<<"BladeA", "PS">>, "a", ".jpg"),
     File(<<"BladeA", "PS">>, "b", ".PNG"),
     File(<<"BladeC", "SS">>, "a", ".bmp"),
     File(<<"BladeA", "PS">>, "notes", ".txt"),
     File(<<"BladeD", "PS">>, "a", ".jpg"),
     File(<<"BladeA", "XX">>, "a", ".jpg"),
     File(<<>>, "loose", ".jpg"),
     File(<<"BladeA">>, "a", ".jpg"),
     File(<<"BladeA", "PS", "sub">>, "deep", ".jpg"),
     File(<<"upload", "BladeB", "LE">>, "c", ".jpeg"),
     File(<<"upload", "BladeB", "LE">>, "c", ".gif"),
     File(<<"other", "BladeA", "TE">>, "d", ".jpg"),
     File(<<"__MACOSX">>, "e", ".jpg")}

\* the extracted archives of at most MaxFiles files
Trees == {t \in SUBSET FilePool : Cardinality(t) <= MaxFiles}

\* imgs = self._parse_zip(extract_dir) on the extracted archive of the request
call_parse_zip(s) ==
    /\ At(s, "parse")
    /\ req' = [req EXCEPT ![s] = Done(s, [status |-> "parsed",
                                          imgs |-> parse_zip(req[s].arg.tree)])]
    /\ UNCHANGED <<turbines, disk, inspections, images, assessments, now, fresh, issued>>

\* a data_ins that leaves total_images to the column's default
InspectionRowDefaultTotal(turbine_id, imgs) ==
    [turbine_id |-> turbine_id, status |-> "uploaded",
     total_images |-> 0, processed_images |-> 0]

\* the inspections row create_inspection_from_zip_path inserts (data_ins)
InspectionRow(turbine_id, imgs) ==
    [turbine_id |-> turbine_id, status |-> "uploaded",
     total_images |-> Len(imgs), processed_images |-> 0]

\* the inspection_images row it inserts for one descriptor
ImageRow(inspection_id, it) ==
    [inspection_id |-> inspection_id, blade |-> it.blade, surface |-> it.surface,
     file_name |-> it.filename, status |-> "uploaded", checked_flag |-> "Unchecked"]

\* _Service.MAX_ZIP_SIZE and the CHUNK of upload_inspection, in bytes
MAX_ZIP_SIZE == 500 * 1024 * 1024
CHUNK == 1024 * 1024

\* the request bodies a caller sends: their length in bytes and whether
\* zipfile.is_zipfile accepts what was written
UploadBodies ==
    {[size |-> 0, zip |-> FALSE],
     [size |-> MAX_ZIP_SIZE - CHUNK + 1, zip |-> FALSE],
     [size |-> 4096, zip |-> TRUE],
     [size |-> MAX_ZIP_SIZE, zip |-> TRUE],
     [size |-> MAX_ZIP_SIZE + 1, zip |-> TRUE],
     [size |-> MAX_ZIP_SIZE + 2 * CHUNK, zip |-> TRUE]}

\* the number of non-empty chunks file.read(CHUNK) yields for a body of size bytes
ChunkCount(size) == (size + CHUNK - 1) \div CHUNK

\* bytes_written after the k-th chunk was read
BytesAfter(size, k) == IF k * CHUNK < size THEN k * CHUNK ELSE size

\* a loop that writes every chunk and compares the total with MAX_ZIP_SIZE
\* only when the body has ended
StreamChunksCheckAtEnd(size) ==
    [rejected |-> size > MAX_ZIP_SIZE, reads |-> ChunkCount(size) + 1, written |-> size]

\* the while loop of upload_inspection: whether it raised, the number of
\* file.read calls it made and the number of bytes it wrote to the temp file.
\* The loop raises at the first chunk k after which bytes_written exceeds
\* MAX_ZIP_SIZE, before writing it; otherwise it ends at the empty read.
StreamChunks(size) ==
    LET over == {k \in 1..ChunkCount(size) : BytesAfter(size, k) > MAX_ZIP_SIZE} IN
    IF over = {}
    THEN [rejected |-> FALSE, reads |-> ChunkCount(size) + 1, written |-> size]
    ELSE LET k == CHOOSE j \in over : \A i \in over : j <= i
         IN [rejected |-> TRUE, reads |-> k, written |-> BytesAfter(size, k - 1)]

\* entries of the file system: the temp archive and the extraction directory
\* of request n under TEMP_UPLOAD_DIR, and the copy of an image of inspection
\* i at <raw_images_path>/<blade>/<surface>/<filename>
NoPath == [blade |-> "", surface |-> "", filename |-> [stem |-> "", suffix |-> ""]]
TmpZip(n) == [kind |-> "tmp_zip", id |-> n, path |-> NoPath]
ExtractDir(n) == [kind |-> "extract_dir", id |-> n, path |-> NoPath]
RawImage(i, it) ==
    [kind |-> "raw_image", id |-> i,
     path |-> [blade |-> it.blade, surface |-> it.surface, filename |-> it.filename]]

\* the file_path column of an image row, as the file it names
FilePath(row) ==
    RawImage(row.inspection_id,
             [blade |-> row.blade, surface |-> row.surface, filename |-> row.file_name])

\* the finally block of create_inspection_from_zip_path
Cleanup(n) == disk \ {ExtractDir(n), TmpZip(n)}

\* uploads that are running
Uploading == {s \in Slots : req[s].op = "upload" /\ req[s].pc # "done"}

\* route upload_inspection: check_turbine_access, create the temp file
upload_route(s) ==
    \E turbine_id \in TurbineInputs, allowed \in BOOLEAN :
        /\ Free(s)
        /\ fresh.inspection + Cardinality(Uploading) <= MaxInspections
        /\ issued' = issued + 1
        /\ LET arg == [turbine_id |-> turbine_id, tmp_zip |-> issued + 1] IN
           IF turbine_id \notin turbines
           THEN /\ allowed
                /\ req' = [req EXCEPT ![s] = [op |-> "upload", pc |-> "done", arg |-> arg,
                                              res |-> HTTPException(404, "turbine")]]
                /\ disk' = disk
           ELSE IF ~allowed
           THEN /\ req' = [req EXCEPT ![s] = [op |-> "upload", pc |-> "done", arg |-> arg,
                                              res |-> HTTPException(403, "access")]]
                /\ disk' = disk
           ELSE /\ req' = [req EXCEPT ![s] = [op |-> "upload", pc |-> "up_stream", arg |-> arg,
                                              loc |-> <<>>]]
                /\ disk' = disk \cup {TmpZip(issued + 1)}
        /\ UNCHANGED <<turbines, inspections, images, assessments, now, fresh>>

\* route upload_inspection: stream the body to the temp file, check it is a ZIP
upload_stream(s) ==
    /\ At(s, "up_stream")
    /\ \E body \in UploadBodies :
        LET stream == StreamChunks(body.size)
            loc == [body |-> body, stream |-> stream]
        IN
        IF stream.rejected
        THEN /\ req' = [req EXCEPT ![s] = [op |-> "upload", pc |-> "done", arg |-> req[s].arg,
                                           loc |-> loc,
                                           res |-> HTTPException(400, "too_large")]]
             /\ disk' = disk \ {TmpZip(req[s].arg.tmp_zip)}
        ELSE IF ~body.zip
        THEN /\ req' = [req EXCEPT ![s] = [op |-> "upload", pc |-> "done", arg |-> req[s].arg,
                                           loc |-> loc,
                                           res |-> HTTPException(400, "not_zip")]]
             /\ disk' = disk \ {TmpZip(req[s].arg.tmp_zip)}
        ELSE /\ req' = [req EXCEPT ![s].pc = "up_turbine", ![s].loc = loc]
             /\ disk' = disk
    /\ UNCHANGED <<turbines, inspections, images, assessments, now, fresh, issued>>

\* create_inspection_from_zip_path: get_turbine_full, extract, _parse_zip
upload_parse(s) ==
    /\ At(s, "up_turbine")
    /\ \E tree \in Archives :
        LET imgs == parse_zip(tree)
            n == req[s].arg.tmp_zip
        IN
        IF req[s].arg.turbine_id \notin turbines
        THEN /\ req' = [req EXCEPT ![s] = Done(s, HTTPException(404, "turbine"))]
             /\ disk' = disk
        ELSE IF imgs = <<>>
        THEN /\ req' = [req EXCEPT ![s] = [op |-> "upload", pc |-> "done", arg |-> req[s].arg,
                                           loc |-> [tree |-> tree, imgs |-> imgs],
                                           res |-> HTTPException(400, "structure")]]
             /\ disk' = Cleanup(n)
        ELSE /\ req' = [req EXCEPT ![s].pc = "up_insert_inspection",
                                   ![s].loc = [tree |-> tree, imgs |-> imgs]]
             /\ disk' = disk \cup {ExtractDir(n)}
    /\ UNCHANGED <<turbines, inspections, images, assessments, now, fresh, issued>>

\* create_inspection_from_zip_path: INSERT the inspection, copy the first file
upload_insert_inspection(s) ==
    /\ At(s, "up_insert_inspection")
    /\ LET inspection_id == fresh.inspection
           n == req[s].arg.tmp_zip
       IN
       IF req[s].arg.turbine_id \notin turbines
       THEN \* the foreign key to turbines.id refuses the row
            /\ req' = [req EXCEPT ![s] = Done(s, [status |-> "exception", detail |-> "insert"])]
            /\ disk' = Cleanup(n)
            /\ UNCHANGED <<inspections, fresh>>
       ELSE
       /\ inspections' = Insert(inspections, inspection_id,
                                InspectionRow(req[s].arg.turbine_id, req[s].loc.imgs))
       /\ fresh' = [fresh EXCEPT !.inspection = @ + 1]
       /\ \E copied \in BOOLEAN :
            IF copied
            THEN /\ req' = [req EXCEPT ![s].pc = "up_insert_image",
                                       ![s].loc = [tree |-> req[s].loc.tree, imgs |-> req[s].loc.imgs,
                                                   inspection_id |-> inspection_id, next |-> 1,
                                                   created |-> {}]]
                 /\ disk' = disk \cup {RawImage(inspection_id, req[s].loc.imgs[1])}
            ELSE /\ req' = [req EXCEPT ![s] = Done(s, [status |-> "exception", detail |-> "copy"])]
                 /\ disk' = Cleanup(n)
    /\ UNCHANGED <<turbines, images, assessments, now, issued>>

\* create_inspection_from_zip_path: INSERT one image row, copy the next file
\* or finish
upload_insert_image(s) ==
    /\ At(s, "up_insert_image")
    /\ LET l == req[s].loc
           image_id == fresh.image
           n == req[s].arg.tmp_zip
       IN
       IF l.inspection_id \notin DOMAIN inspections
       THEN \* the foreign key to inspections.id refuses the row
            /\ req' = [req EXCEPT ![s] = Done(s, [status |-> "exception", detail |-> "insert"])]
            /\ disk' = Cleanup(n)
            /\ UNCHANGED <<images, fresh>>
       ELSE
       /\ images' = Insert(images, image_id, ImageRow(l.inspection_id, l.imgs[l.next]))
       /\ fresh' = [fresh EXCEPT !.image = @ + 1]
       /\ IF l.next = Len(l.imgs)
          THEN /\ req' = [req EXCEPT ![s] =
                           [op |-> "upload", pc |-> "done", arg |-> req[s].arg,
                            res |-> [status |-> "uploaded", inspection_id |-> l.inspection_id,
                                     total_images |-> Len(l.imgs), imgs |-> l.imgs,
                                     created |-> l.created \cup {image_id}]]]
               /\ disk' = Cleanup(n)
          ELSE \E copied \in BOOLEAN :
                IF copied
                THEN /\ req' = [req EXCEPT ![s].loc = [l EXCEPT !.next = @ + 1,
                                                              !.created = @ \cup {image_id}]]
                     /\ disk' = disk \cup {RawImage(l.inspection_id, l.imgs[l.next + 1])}
                ELSE /\ req' = [req EXCEPT ![s] = Done(s, [status |-> "exception", detail |-> "copy"])]
                     /\ disk' = Cleanup(n)
    /\ UNCHANGED <<turbines, inspections, assessments, now, issued>>

\* DELETE /turbines/{turbine_id}: the row is deleted (turbines has no
\* deleted_at column) and the foreign keys cascade to its inspections, their
\* images and their assessments; no file is touched
delete_turbine(t) ==
    /\ NoneDone
    /\ t \in turbines
    /\ turbines' = turbines \ {t}
    /\ LET gone_ins == {i \in DOMAIN inspections : inspections[i].turbine_id = t}
           gone_img == {m \in DOMAIN images : images[m].inspection_id \in gone_ins}
           gone_ass == {a \in DOMAIN assessments : assessments[a].inspection_image_id \in gone_img}
       IN
       /\ inspections' = DeleteIds(inspections, gone_ins)
       /\ images' = DeleteIds(images, gone_img)
       /\ assessments' = DeleteIds(assessments, gone_ass)
    /\ UNCHANGED <<disk, now, fresh, req, issued>>

\* -------------------------------------------------------- update_assessment
\* a box of a request body that lacks 'confidence'
BoxNoConfidence == [x |-> 1, y |-> 1, width |-> 1, height |-> 1, type |-> "LV_5"]
BoxEdited == [x |-> 5, y |-> 5, width |-> 2, height |-> 2, type |-> "LV_5", confidence |-> 9]

\* a field the body does not set (exclude_unset drops it from the dict)
Unset == "<unset>"

\* the ai_bounding_boxes values a body carries
BodyUnset == [kind |-> "unset", items |-> <<>>]
BodyNull == [kind |-> "null", items |-> <<>>]
BodyScalar == [kind |-> "scalar", items |-> <<>>]
BodyList(items) == [kind |-> "list", items |-> items]

\* request bodies of PATCH /images/{image_id}/assessment
AssessmentBodies ==
    {[description |-> Unset, ai_bounding_boxes |-> BodyUnset],
     [description |-> "note", ai_bounding_boxes |-> BodyUnset],
     [description |-> Unset, ai_bounding_boxes |-> BodyList(<<BoxEdited>>)],
     [description |-> "note", ai_bounding_boxes |-> BodyList(<<BoxEdited, BoxNoConfidence>>)],
     [description |-> Unset, ai_bounding_boxes |-> BodyNull],
     [description |-> Unset, ai_bounding_boxes |-> BodyScalar]}

\* UpdateAssessmentRequest: ai_bounding_boxes is Optional[List[Dict]]
UpdateAssessmentRequestValid(body) == body.ai_bounding_boxes.kind # "scalar"

\* update_assessment: the loop over bboxes and required_fields
BoxesValid(items) == \A k \in 1..Len(items) : required_fields \subseteq DOMAIN items[k]

\* update_assessment: the keys of update_data before updated_at is added
UpdateDataKeys(updates) ==
    (IF updates.description # Unset THEN {"description"} ELSE {})
    \cup (IF updates.ai_bounding_boxes.kind # "unset" THEN {"ai_bounding_boxes"} ELSE {})

\* an UPDATE that writes an empty list when the body has no ai_bounding_boxes
UpdateAssessmentRowResetsBoxes(row, updates, t) ==
    [row EXCEPT
        !.description = IF updates.description # Unset THEN updates.description ELSE @,
        !.ai_bounding_boxes =
            CASE updates.ai_bounding_boxes.kind = "null" -> JNull
              [] updates.ai_bounding_boxes.kind = "list" -> JList(updates.ai_bounding_boxes.items)
              [] OTHER -> JList(<<>>),
        !.updated_at = t]

\* update_assessment: the row after UPDATE ... VALUES update_data
UpdateAssessmentRow(row, updates, t) ==
    [row EXCEPT
        !.description = IF updates.description # Unset THEN updates.description ELSE @,
        !.ai_bounding_boxes =
            CASE updates.ai_bounding_boxes.kind = "null" -> JNull
              [] updates.ai_bounding_boxes.kind = "list" -> JList(updates.ai_bounding_boxes.items)
              [] OTHER -> @,
        !.updated_at = t]

\* a validation that never looks inside the boxes
UpdateAssessmentCheckNoFields(updates) ==
    IF UpdateDataKeys(updates) = {} THEN "nothing_to_update" ELSE "ok"

\* update_assessment: the error its validation raises, or "ok"
UpdateAssessmentCheck(updates) ==
    IF updates.ai_bounding_boxes.kind = "list" /\ ~BoxesValid(updates.ai_bounding_boxes.items)
    THEN "missing_field"
    ELSE IF UpdateDataKeys(updates) = {} THEN "nothing_to_update"
    ELSE "ok"

\* a fetch_one whose SELECT has no WHERE clause
FetchOneAssessmentAnyImage(image_id) ==
    IF DOMAIN assessments = {} THEN {0} ELSE DOMAIN assessments

\* fetch_one over the assessments of an image: any of the rows, 0 for no row
FetchOneAssessment(image_id) ==
    IF AssessmentsOf(image_id) = {} THEN {0} ELSE AssessmentsOf(image_id)

\* route update_image_assessment: the body is validated (its content is
\* drawn where update_assessment first reads it), then
\* get_turbine_id_from_image and check_turbine_access
update_assessment_route(s) ==
    \E image_id \in ImageIdInputs, valid \in BOOLEAN, allowed \in BOOLEAN :
        /\ Free(s)
        /\ issued' = issued + 1
        /\ LET arg == [image_id |-> image_id]
               end(res) == [op |-> "update_assessment", pc |-> "done", arg |-> arg, res |-> res]
           IN
           IF ~valid
           THEN /\ allowed
                /\ \E body \in AssessmentBodies : ~UpdateAssessmentRequestValid(body)
                /\ req' = [req EXCEPT ![s] = end(HTTPException(422, "body"))]
           ELSE IF get_turbine_id_from_image(image_id) = Null
           THEN /\ allowed
                /\ req' = [req EXCEPT ![s] = end(HTTPException(404, "image"))]
           ELSE IF ~allowed
           THEN req' = [req EXCEPT ![s] = end(HTTPException(403, "access"))]
           ELSE req' = [req EXCEPT ![s] = [op |-> "update_assessment", pc |-> "ua_fetch",
                                           arg |-> arg, loc |-> <<>>]]
        /\ UNCHANGED <<turbines, disk, inspections, images, assessments, now, fresh>>

\* route update_image_assessment: the assessment must exist; then
\* update_assessment: fetch the assessment, validate the updates
update_assessment_fetch(s) ==
    /\ At(s, "ua_fetch")
    /\ \E a \in FetchOneAssessment(req[s].arg.image_id),
          updates \in {b \in AssessmentBodies : UpdateAssessmentRequestValid(b)} :
        LET check == UpdateAssessmentCheck(updates)
            arg == [image_id |-> req[s].arg.image_id, updates |-> updates]
            end(res) == [op |-> "update_assessment", pc |-> "done", arg |-> arg, res |-> res]
        IN
        IF a = 0
        THEN req' = [req EXCEPT ![s] = end(HTTPException(404, "assessment"))]
        ELSE IF check # "ok"
        THEN req' = [req EXCEPT ![s] = end(HTTPException(400, check))]
        ELSE req' = [req EXCEPT ![s] = [op |-> "update_assessment", pc |-> "ua_write",
                                        arg |-> arg, loc |-> [assessment_id |-> a]]]
    /\ UNCHANGED <<turbines, disk, inspections, images, assessments, now, fresh, issued>>

\* update_assessment: UPDATE ... WHERE id = assessment["id"]
update_assessment_write(s) ==
    /\ At(s, "ua_write")
    /\ assessments' = UpdateWhereId(assessments, req[s].loc.assessment_id,
                                    UpdateAssessmentRow(assessments[req[s].loc.assessment_id],
                                                        req[s].arg.updates, now))
    /\ req' = [req EXCEPT ![s].pc = "ua_reread"]
    /\ UNCHANGED <<turbines, disk, inspections, images, now, fresh, issued>>

\* update_assessment: read the row back and return it
update_assessment_reread(s) ==
    /\ At(s, "ua_reread")
    /\ LET a == req[s].loc.assessment_id IN
       IF a \notin DOMAIN assessments
       THEN req' = [req EXCEPT ![s] = Done(s, [status |-> "exception", detail |-> "row_gone"])]
       ELSE req' = [req EXCEPT ![s] =
                     Done(s, [status |-> "ok", assessment_id |-> a,
                              ai_bounding_boxes |-> assessments[a].ai_bounding_boxes,
                              description |-> assessments[a].description,
                              updated_at |-> assessments[a].updated_at])]
    /\ UNCHANGED <<turbines, disk, inspections, images, assessments, now, fresh, issued>>

\* ---------------------------------------------- partial_update_bounding_box
\* request bodies of PATCH /images/{image_id}/assessment/box
BoxIndexInputs == {-1, 0, 1, 5}
FieldUpdateInputs ==
    {[type |-> "LV_5"], [x |-> 9, confidence |-> 1], [type |-> "LV_1", severity |-> 3]}

\* PartialUpdateBoxRequest: box_index is Field(..., ge=0)
PartialUpdateBoxRequestValid(box_index) == box_index >= 0

\* assessment["ai_bounding_boxes"] or []
BoxesOrEmpty(column) == IF column.isnull THEN <<>> ELSE column.items

\* {**box, **field_updates}
MergeBox(box, field_updates) ==
    [k \in DOMAIN box \cup DOMAIN field_updates |->
        IF k \in DOMAIN field_updates THEN field_updates[k] ELSE box[k]]

\* current_boxes[box_index] = updated_box (box_index counts from 0)
PatchedBoxes(current_boxes, box_index, field_updates) ==
    [k \in 1..Len(current_boxes) |->
        IF k = box_index + 1 THEN MergeBox(current_boxes[k], field_updates)
        ELSE current_boxes[k]]

\* partial_update_bounding_box: the row after UPDATE ... VALUES
\* {ai_bounding_boxes, updated_at}
PartialUpdateRow(row, current_boxes, t) ==
    [row EXCEPT !.ai_bounding_boxes = JList(current_boxes), !.updated_at = t]

\* a validation whose message names the count as the upper end of the range
PartialUpdateCheckHighIsCount(current_boxes, box_index, field_updates) ==
    IF current_boxes = <<>>
    THEN [status |-> "http_error", code |-> 400, detail |-> "no_boxes"]
    ELSE IF box_index < 0 \/ box_index >= Len(current_boxes)
    THEN [status |-> "http_error", code |-> 400, detail |-> "box_index",
          count |-> Len(current_boxes), low |-> 0, high |-> Len(current_boxes)]
    ELSE IF ~(DOMAIN field_updates \subseteq allowed_fields)
    THEN [status |-> "http_error", code |-> 400, detail |-> "field"]
    ELSE [status |-> "ok"]

\* a validation that lets every key of field_updates through
PartialUpdateCheckAnyField(current_boxes, box_index, field_updates) ==
    IF current_boxes = <<>>
    THEN [status |-> "http_error", code |-> 400, detail |-> "no_boxes"]
    ELSE IF box_index < 0 \/ box_index >= Len(current_boxes)
    THEN [status |-> "http_error", code |-> 400, detail |-> "box_index",
          count |-> Len(current_boxes), low |-> 0, high |-> Len(current_boxes) - 1]
    ELSE [status |-> "ok"]

\* partial_update_bounding_box: the error its validation raises, or "ok"
PartialUpdateCheck(current_boxes, box_index, field_updates) ==
    IF current_boxes = <<>>
    THEN [status |-> "http_error", code |-> 400, detail |-> "no_boxes"]
    ELSE IF box_index < 0 \/ box_index >= Len(current_boxes)
    THEN [status |-> "http_error", code |-> 400, detail |-> "box_index",
          count |-> Len(current_boxes), low |-> 0, high |-> Len(current_boxes) - 1]
    ELSE IF ~(DOMAIN field_updates \subseteq allowed_fields)
    THEN [status |-> "http_error", code |-> 400, detail |-> "field"]
    ELSE [status |-> "ok"]

\* route partial_update_bounding_box: the body is validated (its updates
\* are drawn where partial_update_bounding_box first reads them), then
\* get_turbine_id_from_image and check_turbine_access
partial_update_route(s) ==
    \E image_id \in ImageIdInputs, box_index \in BoxIndexInputs, allowed \in BOOLEAN :
        /\ Free(s)
        /\ issued' = issued + 1
        /\ LET arg == [image_id |-> image_id, box_index |-> box_index]
               end(res) == [op |-> "partial_update", pc |-> "done", arg |-> arg, res |-> res]
           IN
           IF ~PartialUpdateBoxRequestValid(box_index)
           THEN /\ allowed
                /\ req' = [req EXCEPT ![s] = end(HTTPException(422, "box_index_ge_0"))]
           ELSE IF get_turbine_id_from_image(image_id) = Null
           THEN /\ allowed
                /\ req' = [req EXCEPT ![s] = end(HTTPException(404, "image"))]
           ELSE IF ~allowed
           THEN req' = [req EXCEPT ![s] = end(HTTPException(403, "access"))]
           ELSE req' = [req EXCEPT ![s] = [op |-> "partial_update", pc |-> "pu_fetch",
                                           arg |-> arg, loc |-> <<>>]]
        /\ UNCHANGED <<turbines, disk, inspections, images, assessments, now, fresh>>

\* route partial_update_bounding_box: the assessment must exist; then
\* partial_update_bounding_box: fetch the assessment, validate, merge
partial_update_fetch(s) ==
    /\ At(s, "pu_fetch")
    /\ \E a \in FetchOneAssessment(req[s].arg.image_id), field_updates \in FieldUpdateInputs :
        LET arg == [image_id |-> req[s].arg.image_id, box_index |-> req[s].arg.box_index,
                    field_updates |-> field_updates]
            end(res) == [op |-> "partial_update", pc |-> "done", arg |-> arg, res |-> res]
        IN
        IF a = 0
        THEN req' = [req EXCEPT ![s] = end(HTTPException(404, "assessment"))]
        ELSE LET current_boxes == BoxesOrEmpty(assessments[a].ai_bounding_boxes)
                 check == PartialUpdateCheck(current_boxes, arg.box_index, field_updates)
             IN IF check.status # "ok"
                THEN req' = [req EXCEPT ![s] = end(check)]
                ELSE req' = [req EXCEPT ![s] =
                              [op |-> "partial_update", pc |-> "pu_write", arg |-> arg,
                               loc |-> [assessment_id |-> a,
                                        read_boxes |-> current_boxes,
                                        current_boxes |->
                                            PatchedBoxes(current_boxes, arg.box_index,
                                                         field_updates)]]]
    /\ UNCHANGED <<turbines, disk, inspections, images, assessments, now, fresh, issued>>

\* partial_update_bounding_box: UPDATE ai_bounding_boxes = current_boxes
partial_update_write(s) ==
    /\ At(s, "pu_write")
    /\ assessments' = UpdateWhereId(assessments, req[s].loc.assessment_id,
                                    PartialUpdateRow(assessments[req[s].loc.assessment_id],
                                                     req[s].loc.current_boxes, now))
    /\ req' = [req EXCEPT ![s].pc = "pu_reread"]
    /\ UNCHANGED <<turbines, disk, inspections, images, now, fresh, issued>>

\* partial_update_bounding_box: read the row back and return it
partial_update_reread(s) ==
    /\ At(s, "pu_reread")
    /\ LET a == req[s].loc.assessment_id IN
       IF a \notin DOMAIN assessments
       THEN req' = [req EXCEPT ![s] = Done(s, [status |-> "exception", detail |-> "row_gone"])]
       ELSE req' = [req EXCEPT ![s] =
                     Done(s, [status |-> "ok", assessment_id |-> a,
                              ai_bounding_boxes |-> assessments[a].ai_bounding_boxes,
                              updated_box_index |-> req[s].arg.box_index,
                              updated_box |-> req[s].loc.current_boxes[req[s].arg.box_index + 1],
                              description |-> assessments[a].description])]
    /\ UNCHANGED <<turbines, disk, inspections, images, assessments, now, fresh, issued>>

\* ------------------------------------------------------------ delete_images
\* request bodies of DELETE /{inspection_id}/images
DeleteLists == {<<1>>, <<3, 2>>}

\* route delete_inspection_images: get_inspection, check_turbine_access
delete_images_route(s) ==
    \E inspection_id \in InspectionIdInputs, image_ids \in DeleteLists, allowed \in BOOLEAN :
        /\ Free(s)
        /\ issued' = issued + 1
        /\ LET arg == [inspection_id |-> inspection_id, image_ids |-> image_ids]
               end(res) == [op |-> "delete_images", pc |-> "done", arg |-> arg, res |-> res]
           IN
           IF inspection_id \notin DOMAIN inspections
           THEN /\ allowed
                /\ req' = [req EXCEPT ![s] = end(HTTPException(404, "inspection"))]
           ELSE IF ~allowed
           THEN req' = [req EXCEPT ![s] = end(HTTPException(403, "access"))]
           ELSE req' = [req EXCEPT ![s] = [op |-> "delete_images", pc |-> "di_fetch",
                                           arg |-> arg,
                                           loc |-> [next |-> 1, deleted_ids |-> <<>>]]]
        /\ UNCHANGED <<turbines, disk, inspections, images, assessments, now, fresh>>

\* delete_images: fetch the next image of the list, or count what remains
delete_images_fetch(s) ==
    /\ At(s, "di_fetch")
    /\ LET l == req[s].loc
           ids == req[s].arg.image_ids
       IN
       IF l.next > Len(ids)
       THEN req' = [req EXCEPT ![s].pc = "di_total",
                               ![s].loc = [deleted_ids |-> l.deleted_ids,
                                           remaining |->
                                               Cardinality(ImagesOf(req[s].arg.inspection_id))]]
       ELSE IF ids[l.next] \in DOMAIN images
               /\ images[ids[l.next]].inspection_id = req[s].arg.inspection_id
       THEN req' = [req EXCEPT ![s].pc = "di_delete_assessments"]
       ELSE req' = [req EXCEPT ![s].loc = [l EXCEPT !.next = @ + 1]]
    /\ UNCHANGED <<turbines, disk, inspections, images, assessments, now, fresh, issued>>

\* delete_images: DELETE FROM damage_assessments WHERE inspection_image_id = img_id
delete_images_assessments(s) ==
    /\ At(s, "di_delete_assessments")
    /\ assessments' = DeleteIds(assessments, AssessmentsOf(req[s].arg.image_ids[req[s].loc.next]))
    /\ req' = [req EXCEPT ![s].pc = "di_delete_image"]
    /\ UNCHANGED <<turbines, disk, inspections, images, now, fresh, issued>>

\* delete_images: DELETE FROM inspection_images WHERE id = img_id; the
\* foreign key of damage_assessments cascades
delete_images_image(s) ==
    /\ At(s, "di_delete_image")
    /\ LET img_id == req[s].arg.image_ids[req[s].loc.next] IN
       /\ images' = DeleteIds(images, {img_id})
       /\ assessments' = DeleteIds(assessments, AssessmentsOf(img_id))
       /\ req' = [req EXCEPT ![s].pc = "di_fetch",
                             ![s].loc = [next |-> req[s].loc.next + 1,
                                         deleted_ids |-> Append(req[s].loc.deleted_ids, img_id)]]
    /\ UNCHANGED <<turbines, disk, inspections, now, fresh, issued>>

\* delete_images: UPDATE inspections SET total_images = remaining
delete_images_total(s) ==
    /\ At(s, "di_total")
    /\ inspections' = UpdateWhereId(inspections, req[s].arg.inspection_id,
                                    [inspections[req[s].arg.inspection_id]
                                        EXCEPT !.total_images = req[s].loc.remaining])
    /\ req' = [req EXCEPT ![s] =
                 Done(s, [status |-> "ok", deleted_ids |-> req[s].loc.deleted_ids,
                          remaining_images |-> req[s].loc.remaining])]
    /\ UNCHANGED <<turbines, disk, images, assessments, now, fresh, issued>>

\* ------------------------------------------------------- build_results_json
\* the position of a value in a sequence that holds it
IndexOf(seq, v) == CHOOSE k \in 1..Len(seq) : seq[k] = v

\* ORDER BY blade, surface: the rank of a row in the alphabetical order of
\* the blade and surface names (position_pct is NULL in every row)
SurfacesSorted == <<"LE", "PS", "SS", "TE">>
ImageRank(row) ==
    IndexOf(VALID_BLADES, row.blade) * (Len(SurfacesSorted) + 1)
        + IndexOf(SurfacesSorted, row.surface)

\* get_images_for_inspection: the image rows of the inspection in that
\* order, each with its id (rows of equal rank in the order of their ids)
RECURSIVE ImagesSorted(_)
ImagesSorted(ids) ==
    IF ids = {} THEN <<>>
    ELSE LET m == CHOOSE x \in ids : \A y \in ids :
                    \/ ImageRank(images[x]) < ImageRank(images[y])
                    \/ ImageRank(images[x]) = ImageRank(images[y]) /\ x <= y
         IN <<[id |-> m, blade |-> images[m].blade, surface |-> images[m].surface,
               file_name |-> images[m].file_name, status |-> images[m].status]>>
            \o ImagesSorted(ids \ {m})
get_images_for_inspection(inspection_id) == ImagesSorted(ImagesOf(inspection_id))

\* the assessments of an image ORDER BY ai_processed_at DESC, each reduced to
\* {"ai_bounding_boxes": ... or [], "description": ...}
RECURSIVE AssessmentsSorted(_)
AssessmentsSorted(ids) ==
    IF ids = {} THEN <<>>
    ELSE LET a == CHOOSE x \in ids : \A y \in ids :
                    \/ assessments[x].ai_processed_at > assessments[y].ai_processed_at
                    \/ assessments[x].ai_processed_at = assessments[y].ai_processed_at /\ x <= y
         IN <<[ai_bounding_boxes |-> BoxesOrEmpty(assessments[a].ai_bounding_boxes),
               description |-> assessments[a].description]>>
            \o AssessmentsSorted(ids \ {a})

\* the entry of out_images for one fetched image
OutImage(img, rows) ==
    [image_id |-> img.id, blade |-> img.blade, surface |-> img.surface,
     file_name |-> img.file_name, status |-> img.status, assessments |-> rows]

\* statistics that count every image that is no longer UPLOADED as analyzed
ResultsStatisticsCountsStarted(fetched, out_images) ==
    [total_images |-> Len(out_images),
     analyzed_images |-> Cardinality({k \in 1..Len(fetched) : fetched[k].status # "uploaded"})]

\* build_results_json: stats
ResultsStatistics(fetched, out_images) ==
    [total_images |-> Len(out_images),
     analyzed_images |-> Cardinality({k \in 1..Len(fetched) : fetched[k].status = "analyzed"})]

\* build_results_json: metadata
ResultsMetadata(inspection_id, ins) ==
    [inspection_id |-> inspection_id, status |-> ins.status,
     total_images |-> ins.total_images, processed_images |-> ins.processed_images]

\* build_results_json: the returned document
ResultsDocument(inspection_id, ins, fetched, out_images) ==
    [status |-> "ok", metadata |-> ResultsMetadata(inspection_id, ins),
     statistics |-> ResultsStatistics(fetched, out_images), images |-> out_images]

\* route get_results: get_inspection, check_turbine_access
get_results_route(s) ==
    \E inspection_id \in InspectionIdInputs, allowed \in BOOLEAN :
        /\ Free(s)
        /\ issued' = issued + 1
        /\ LET arg == [inspection_id |-> inspection_id]
               end(res) == [op |-> "get_results", pc |-> "done", arg |-> arg, res |-> res]
           IN
           IF inspection_id \notin DOMAIN inspections
           THEN /\ allowed
                /\ req' = [req EXCEPT ![s] = end(HTTPException(404, "inspection"))]
           ELSE IF ~allowed
           THEN req' = [req EXCEPT ![s] = end(HTTPException(403, "access"))]
           ELSE req' = [req EXCEPT ![s] = [op |-> "get_results", pc |-> "br_inspection",
                                           arg |-> arg, loc |-> <<>>]]
        /\ UNCHANGED <<turbines, disk, inspections, images, assessments, now, fresh>>

\* build_results_json: get_inspection
build_results_inspection(s) ==
    /\ At(s, "br_inspection")
    /\ LET inspection_id == req[s].arg.inspection_id IN
       IF inspection_id \notin DOMAIN inspections
       THEN req' = [req EXCEPT ![s] = Done(s, HTTPException(404, "inspection"))]
       ELSE req' = [req EXCEPT ![s].pc = "br_images",
                               ![s].loc = [ins |-> inspections[inspection_id]]]
    /\ UNCHANGED <<turbines, disk, inspections, images, assessments, now, fresh, issued>>

\* build_results_json: get_images_for_inspection; with no image the loop is
\* skipped and the document returned
build_results_images(s) ==
    /\ At(s, "br_images")
    /\ LET inspection_id == req[s].arg.inspection_id
           fetched == get_images_for_inspection(inspection_id)
       IN
       IF fetched = <<>>
       THEN req' = [req EXCEPT ![s] = Done(s, ResultsDocument(inspection_id, req[s].loc.ins,
                                                              fetched, <<>>))]
       ELSE req' = [req EXCEPT ![s].pc = "br_assessments",
                               ![s].loc = [ins |-> req[s].loc.ins, fetched |-> fetched,
                                           out_images |-> <<>>]]
    /\ UNCHANGED <<turbines, disk, inspections, images, assessments, now, fresh, issued>>

\* build_results_json: fetch_all the assessments of the next image and append
\* its entry; after the last image build the statistics and return
build_results_assessments(s) ==
    /\ At(s, "br_assessments")
    /\ LET l == req[s].loc
           img == l.fetched[Len(l.out_images) + 1]
           out_images == Append(l.out_images,
                                OutImage(img, AssessmentsSorted(AssessmentsOf(img.id))))
       IN
       IF Len(out_images) = Len(l.fetched)
       THEN req' = [req EXCEPT ![s] = Done(s, ResultsDocument(req[s].arg.inspection_id, l.ins,
                                                              l.fetched, out_images))]
       ELSE req' = [req EXCEPT ![s].loc = [l EXCEPT !.out_images = out_images]]
    /\ UNCHANGED <<turbines, disk, inspections, images, assessments, now, fresh, issued>>

\* ------------------------------------------------------------- stream_image
\* the callers of the stream: one who passes check_turbine_access for the
\* turbine of the image as a viewer, and one who does not
Callers == {"viewer", "stranger"}

\* route stream_image: fetch the image row, open the file it names
stream_image(s) ==
    \E image_id \in ImageIdInputs, caller \in Callers :
        /\ Free(s)
        /\ issued' = issued + 1
        /\ LET arg == [image_id |-> image_id, caller |-> caller]
               end(res) == [op |-> "stream_image", pc |-> "done", arg |-> arg, res |-> res]
           IN
           IF image_id \notin DOMAIN images
           THEN req' = [req EXCEPT ![s] = end(HTTPException(404, "image"))]
           ELSE IF FilePath(images[image_id]) \notin disk
           THEN req' = [req EXCEPT ![s] = end(HTTPException(404, "file"))]
           ELSE req' = [req EXCEPT ![s] = end([status |-> "ok",
                                               file |-> FilePath(images[image_id])])]
        /\ UNCHANGED <<turbines, disk, inspections, images, assessments, now, fresh>>

\* ------------------------------------------------------------ specification
\* the database right after one upload of ArchiveTwo to turbine t1
IngestedImgs == parse_zip(ArchiveTwo)
Ingested ==
    [inspections |-> Insert(<< >>, 1, InspectionRow("t1", IngestedImgs)),
     images |-> [k \in 1..Len(IngestedImgs) |-> ImageRow(1, IngestedImgs[k])],
     assessments |-> << >>]

\* ... after image 1 was then analyzed at time 0 and three boxes were found
Analyzed ==
    [inspections |-> UpdateWhereId(Ingested.inspections, 1, BumpInspection(Ingested.inspections[1])),
     images |-> UpdateWhereId(Ingested.images, 1, MarkAnalyzed(Ingested.images[1])),
     assessments |-> Insert(<< >>, 1, AnalyzeInsertRow(1, <<BoxA, BoxB, BoxC>>, 0))]

\* the states a behaviour starts in
StartStates == {Ingested, Analyzed}

\* the files the ingestion copied to the storage root
IngestedDisk == {RawImage(1, IngestedImgs[k]) : k \in 1..Len(IngestedImgs)}

\* the pipeline on an ingested inspection
Init ==
    /\ \E start \in StartStates :
        /\ inspections = start.inspections
        /\ images = start.images
        /\ assessments = start.assessments
        /\ fresh = [inspection |-> 2, image |-> Len(IngestedImgs) + 1,
                    assessment |-> Cardinality(DOMAIN start.assessments) + 1]
    /\ now = 0
    /\ req = [s \in Slots |-> Idle]
    /\ issued = 0
    /\ turbines = Turbines
    /\ disk = IngestedDisk

Next ==
    \/ Tick
    \/ \E s \in Slots :
        \/ respond(s)
        \/ analyze_route(s)
        \/ analyze_set_processing(s)
        \/ analyze_detect(s)
        \/ analyze_save(s)
        \/ analyze_mark(s)
        \/ analyze_bump(s)
        \/ update_assessment_route(s)
        \/ update_assessment_fetch(s)
        \/ update_assessment_write(s)
        \/ update_assessment_reread(s)
        \/ partial_update_route(s)
        \/ partial_update_fetch(s)
        \/ partial_update_write(s)
        \/ partial_update_reread(s)
        \/ delete_images_route(s)
        \/ delete_images_fetch(s)
        \/ delete_images_assessments(s)
        \/ delete_images_image(s)
        \/ delete_images_total(s)

Spec == Init /\ [][Next]_vars

\* uploads into an empty database
InitUpload ==
    /\ inspections = << >>
    /\ images = << >>
    /\ assessments = << >>
    /\ now = 0
    /\ fresh = [inspection |-> 1, image |-> 1, assessment |-> 1]
    /\ req = [s \in Slots |-> Idle]
    /\ issued = 0
    /\ turbines = Turbines
    /\ disk = {}

NextUpload ==
    \E s \in Slots :
        \/ respond(s)
        \/ upload_route(s)
        \/ upload_stream(s)
        \/ upload_parse(s)
        \/ upload_insert_inspection(s)
        \/ upload_insert_image(s)

SpecUpload == InitUpload /\ [][NextUpload]_vars

\* uploads while the turbine may be deleted
NextIngest ==
    \/ NextUpload
    \/ \E t \in Turbines : delete_turbine(t)

SpecIngest == InitUpload /\ [][NextIngest]_vars

\* the parser on every extracted archive of at most MaxFiles files
InitParse ==
    /\ inspections = << >>
    /\ images = << >>
    /\ assessments = << >>
    /\ now = 0
    /\ fresh = [inspection |-> 1, image |-> 1, assessment |-> 1]
    /\ \E tree \in Trees :
         req = [s \in Slots |-> IF s = 1 THEN [op |-> "parse", pc |-> "parse",
                                               arg |-> [tree |-> tree]]
                                ELSE Idle]
    /\ issued = 1
    /\ turbines = Turbines
    /\ disk = {}

NextParse ==
    \E s \in Slots :
        \/ respond(s)
        \/ call_parse_zip(s)

SpecParse == InitParse /\ [][NextParse]_vars

\* the read operations on an ingested inspection while images are analyzed
NextRead ==
    \/ Tick
    \/ \E s \in Slots :
        \/ respond(s)
        \/ analyze_route(s)
        \/ analyze_set_processing(s)
        \/ analyze_detect(s)
        \/ analyze_save(s)
        \/ analyze_mark(s)
        \/ analyze_bump(s)
        \/ get_results_route(s)
        \/ build_results_inspection(s)
        \/ build_results_images(s)
        \/ build_results_assessments(s)
        \/ stream_image(s)

SpecRead == Init /\ [][NextRead]_vars

\* -------------------------------------------------- _extract_position_pct
\* file names are sequences of characters; "sup2" stands for the character
\* U+00B2 (superscript two), which str.isdigit accepts and float refuses
MaxNameLen == 4

NameChars == {"a", "_", ".", "0", "7", "sup2"}

\* the characters float() reads as decimal digits, with their values
DecimalValueOf == [c \in {"0", "2", "7", "8"} |->
                      IF c = "0" THEN 0 ELSE IF c = "2" THEN 2 ELSE IF c = "7" THEN 7 ELSE 8]

\* the characters str.isdigit accepts
DigitChars == DOMAIN DecimalValueOf \cup {"sup2"}

\* IMG_0082_D.JPG, photo.png, IMG_7_(superscript two).jpg and every short name
NameInputs ==
    { <<"I", "M", "G", "_", "0", "0", "8", "2", "_", "D", ".", "J", "P", "G">>,
      <<"p", "h", "o", "t", "o", ".", "p", "n", "g">>,
      <<"I", "M", "G", "_", "7", "_", "sup2", ".", "j", "p", "g">> }
    \cup UNION {[1..n -> NameChars] : n \in 1..MaxNameLen}

\* Path(name).stem: the name without its last suffix; a dot that leads or
\* ends the name starts no suffix
PathStem(name) ==
    LET dots == {k \in 1..Len(name) : name[k] = "."}
        i == IF dots = {} THEN 0 ELSE CHOOSE k \in dots : \A j \in dots : j <= k
    IN IF 1 < i /\ i < Len(name) THEN SubSeq(name, 1, i - 1) ELSE name

\* stem.split("_"): the parts between separators, as [from, to] index pairs
\* in the order of the stem (an empty part has to = from - 1)
SplitParts(stem) ==
    LET seps == {0, Len(stem) + 1} \cup {k \in 1..Len(stem) : stem[k] = "_"}
        starts == seps \ {Len(stem) + 1}
        nextSep(a) == CHOOSE b \in seps : b > a /\ \A c \in seps : c > a => b <= c
    IN {[from |-> a + 1, to |-> nextSep(a) - 1] : a \in starts}

\* part.isdigit(): not empty and every character a digit
IsDigit(part) == Len(part) > 0 /\ \A k \in 1..Len(part) : part[k] \in DigitChars

\* float(part) raises ValueError unless every character is a decimal digit
FloatRaises(part) == \E k \in 1..Len(part) : part[k] \notin DOMAIN DecimalValueOf

RECURSIVE FloatOf(_)
FloatOf(part) ==
    IF part = <<>> THEN 0
    ELSE 10 * FloatOf(SubSeq(part, 1, Len(part) - 1)) + DecimalValueOf[part[Len(part)]]

NoPosition == [isnull |-> TRUE, value |-> 0]

Position(v) == [isnull |-> FALSE, value |-> v]

\* the last part isdigit accepts decides: its float, or None when float raises
\* (the bare except swallows the error and the scan ends there)
extract_position_pct(name) ==
    LET stem == PathStem(name)
        digit == {p \in SplitParts(stem) : IsDigit(SubSeq(stem, p.from, p.to))}
    IN IF digit = {} THEN NoPosition
       ELSE LET p == CHOOSE q \in digit : \A r \in digit : r.from <= q.from
                part == SubSeq(stem, p.from, p.to)
            IN IF FloatRaises(part) THEN NoPosition ELSE Position(FloatOf(part))

\* one call of _extract_position_pct on the name of a file
call_extract_position_pct(s) ==
    /\ At(s, "position")
    /\ req' = [req EXCEPT ![s] = Done(s, [status |-> "returned",
                                          position_pct |->
                                              extract_position_pct(req[s].arg.name)])]
    /\ UNCHANGED <<turbines, disk, inspections, images, assessments, now, fresh, issued>>

\* the position parser applied to one file name
InitPosition ==
    /\ inspections = << >>
    /\ images = << >>
    /\ assessments = << >>
    /\ now = 0
    /\ fresh = [inspection |-> 1, image |-> 1, assessment |-> 1]
    /\ \E name \in NameInputs :
         req = [s \in Slots |-> IF s = 1 THEN [op |-> "position", pc |-> "position",
                                               arg |-> [name |-> name]]
                                ELSE Idle]
    /\ issued = 1
    /\ turbines = Turbines
    /\ disk = {}

NextPosition ==
    \E s \in Slots :
        \/ respond(s)
        \/ call_extract_position_pct(s)

SpecPosition == InitPosition /\ [][NextPosition]_vars

\* -------------------------------------------------------- update_inspection
\* the status an UpdateInspectionRequest carries: not set, null, or a string
\* (the field is a free string; operator, equipment and captured_at are
\* written to columns the inspection rows here do not carry)
StatusInputs == {Unset, Null, "completed", "failed"}

\* updates = {k: v for k, v in updates.items() if v is not None}, applied
UpdateInspectionRow(row, updates) ==
    IF updates.status \in {Unset, Null} THEN row
    ELSE [row EXCEPT !.status = updates.status]

\* PATCH /{inspection_id}: the inspection is looked up, then the caller's
\* access to its turbine is checked
update_inspection_route(s) ==
    \E inspection_id \in InspectionIdInputs, st \in StatusInputs, allowed \in BOOLEAN :
        /\ Free(s)
        /\ issued' = issued + 1
        /\ LET arg == [inspection_id |-> inspection_id, updates |-> [status |-> st]]
               end(res) == [op |-> "update_inspection", pc |-> "done", arg |-> arg, res |-> res]
           IN
           IF inspection_id \notin DOMAIN inspections
           THEN /\ allowed
                /\ st = Unset
                /\ req' = [req EXCEPT ![s] = end(HTTPException(404, "inspection"))]
           ELSE IF ~allowed
           THEN /\ st = Unset
                /\ req' = [req EXCEPT ![s] = end(HTTPException(403, "access"))]
           ELSE req' = [req EXCEPT ![s] = [op |-> "update_inspection", pc |-> "ui_write",
                                           arg |-> arg, loc |-> <<>>]]
        /\ UNCHANGED <<turbines, disk, inspections, images, assessments, now, fresh>>

\* update_inspection: UPDATE inspections SET ... WHERE id = inspection_id
update_inspection_write(s) ==
    /\ At(s, "ui_write")
    /\ LET id == req[s].arg.inspection_id IN
       inspections' = IF id \in DOMAIN inspections
                      THEN UpdateWhereId(inspections, id,
                                         UpdateInspectionRow(inspections[id], req[s].arg.updates))
                      ELSE inspections
    /\ req' = [req EXCEPT ![s].pc = "ui_reread"]
    /\ UNCHANGED <<turbines, disk, images, assessments, now, fresh, issued>>

\* update_inspection: the row is read again and returned; dict(None) raises
\* when the row is gone
update_inspection_reread(s) ==
    /\ At(s, "ui_reread")
    /\ LET id == req[s].arg.inspection_id IN
       req' = [req EXCEPT ![s] =
                 IF id \in DOMAIN inspections
                 THEN Done(s, [status |-> "ok", inspection |-> inspections[id]])
                 ELSE Done(s, [status |-> "exception", inspection |-> Null])]
    /\ UNCHANGED <<turbines, disk, inspections, images, assessments, now, fresh, issued>>

\* the life of an ingested inspection: its images are analyzed and deleted,
\* its results are read and its metadata is updated
NextLifecycle ==
    \/ Tick
    \/ \E s \in Slots :
        \/ respond(s)
        \/ analyze_route(s)
        \/ analyze_set_processing(s)
        \/ analyze_detect(s)
        \/ analyze_save(s)
        \/ analyze_mark(s)
        \/ analyze_bump(s)
        \/ update_inspection_route(s)
        \/ update_inspection_write(s)
        \/ update_inspection_reread(s)
        \/ delete_images_route(s)
        \/ delete_images_fetch(s)
        \/ delete_images_assessments(s)
        \/ delete_images_image(s)
        \/ delete_images_total(s)
        \/ get_results_route(s)
        \/ build_results_inspection(s)
        \/ build_results_images(s)
        \/ build_results_assessments(s)
        \/ update_assessment_route(s)
        \/ update_assessment_fetch(s)
        \/ update_assessment_write(s)
        \/ update_assessment_reread(s)

SpecLifecycle == Init /\ [][NextLifecycle]_vars

\* ------------------------------------------------- the detector on the loop
\* _yolov8_detect is a coroutine without an await: from its call to its
\* return the event loop runs nothing else. A request inside it is at
\* "an_predict"; the loop is free when no request is
LoopFreeAlways == TRUE

LoopFree == \A t \in Slots : req[t].pc # "an_predict"

\* analyze_one_image calls self._yolov8_detect(img["file_path"])
yolov8_detect_call(s) ==
    /\ At(s, "an_detect")
    /\ req' = [req EXCEPT ![s].pc = "an_predict"]
    /\ UNCHANGED <<turbines, disk, inspections, images, assessments, now, fresh, issued>>

\* self.model.predict has returned or raised, and analyze_one_image goes on
yolov8_detect_return(s) ==
    /\ At(s, "an_predict")
    /\ analyze_after_detect(s)

\* the requests of SpecRead with the detector call made visible; handlers
\* step only while the loop is free, time passes anyway
NextDetect ==
    \/ Tick
    \/ \E s \in Slots : yolov8_detect_return(s)
    \/ /\ LoopFree
       /\ \E s \in Slots :
            \/ respond(s)
            \/ analyze_route(s)
            \/ analyze_set_processing(s)
            \/ yolov8_detect_call(s)
            \/ analyze_save(s)
            \/ analyze_mark(s)
            \/ analyze_bump(s)
            \/ get_results_route(s)
            \/ build_results_inspection(s)
            \/ build_results_images(s)
            \/ build_results_assessments(s)
            \/ stream_image(s)

SpecDetect == Init /\ [][NextDetect]_vars

\* ------------------------------------------------------------------ claims
\* the handler in slot s is at step p and takes it
Takes(s, p) == req[s].pc = p /\ req'[s] # req[s]

\* slot s runs handler op and takes a step of it
Steps(s, op) == req[s].op = op /\ req[s].pc # "done" /\ req'[s] # req[s]

\* C1: re-analysing an image that already has an assessment overwrites that
\* row's ai_bounding_boxes and ai_processed_at with the new detection and
\* leaves its description as it was; no step of analyze changes the
\* description of any row
ReanalysisKeepsDescription ==
    [][\A s \in Slots :
        /\ Steps(s, "analyze") =>
              \A a \in DOMAIN assessments :
                  /\ a \in DOMAIN assessments'
                  /\ assessments'[a].description = assessments[a].description
        /\ (Takes(s, "an_save") /\ req[s].loc.existing \in DOMAIN assessments) =>
              LET row == assessments'[req[s].loc.existing] IN
              /\ row.ai_bounding_boxes = JList(req[s].loc.boxes)
              /\ row.ai_processed_at = now
              /\ row.description = assessments[req[s].loc.existing].description
      ]_vars

\* a described assessment whose boxes and ai_processed_at a later analyze
\* has just replaced
ReanalysisOverwroteDescribedRow ==
    \E s \in Slots :
        /\ req[s].op = "analyze"
        /\ req[s].pc = "an_mark"
        /\ req[s].loc.ass_id \in DOMAIN assessments
        /\ LET row == assessments[req[s].loc.ass_id] IN
            /\ row.description = "note"
            /\ row.ai_bounding_boxes = JList(<<>>)
            /\ row.ai_processed_at = 1

\* C2: in every reachable state an image has at most one assessment row
AtMostOneAssessmentPerImage ==
    \A a, b \in DOMAIN assessments :
        assessments[a].inspection_image_id = assessments[b].inspection_image_id => a = b

\* C3: an analyze call whose detector failed has returned the result "failed"
\* instead of raising, and has left the image FAILED (not PROCESSING)
DetectorFailureEndsFailed ==
    \A s \in Slots :
        (/\ req[s].op = "analyze"
         /\ req[s].pc = "done"
         /\ "detector" \in DOMAIN req[s].res
         /\ req[s].res.detector = "raise") =>
            /\ req[s].res.status = "failed"
            /\ req[s].arg.image_id \in DOMAIN images =>
                  images[req[s].arg.image_id].status = "failed"

\* C4: in every reachable state processed_images <= total_images
ProcessedWithinTotal ==
    \A i \in DOMAIN inspections :
        inspections[i].processed_images <= inspections[i].total_images

\* the boxes of list after differ from those of list before at most in the
\* fields named of the box at index box_index (counted from 0)
OnlyNamedFieldsDiffer(before, after, box_index, named) ==
    /\ Len(after) = Len(before)
    /\ \A k \in 1..Len(before) :
          IF k = box_index + 1
          THEN /\ DOMAIN after[k] = DOMAIN before[k] \cup named
               /\ \A f \in DOMAIN before[k] \ named : after[k][f] = before[k][f]
          ELSE after[k] = before[k]

\* C5: the write of a successful partial update changes, in the stored list,
\* only the named fields of the box at box_index: the other fields of that
\* box, every other box, and the length and order of the list stay as stored
PatchChangesOnlyNamedFields ==
    [][\A s \in Slots :
        (Takes(s, "pu_write") /\ req[s].loc.assessment_id \in DOMAIN assessments) =>
            OnlyNamedFieldsDiffer(
                BoxesOrEmpty(assessments[req[s].loc.assessment_id].ai_bounding_boxes),
                BoxesOrEmpty(assessments'[req[s].loc.assessment_id].ai_bounding_boxes),
                req[s].arg.box_index, DOMAIN req[s].arg.field_updates)
      ]_vars

\* what does hold of a partial update: the list it is about to write is the
\* list it read with only the named fields of the box at box_index changed
PatchOfListReadIsIsolated ==
    \A s \in Slots :
        req[s].pc = "pu_write" =>
            OnlyNamedFieldsDiffer(req[s].loc.read_boxes, req[s].loc.current_boxes,
                                  req[s].arg.box_index, DOMAIN req[s].arg.field_updates)

\* the response r is the validation error that reports the range [0, n - 1]
RangeError(r, n) ==
    /\ r.pc = "done"
    /\ r.res.status = "http_error"
    /\ r.res.code = 400
    /\ r.res.detail = "box_index"
    /\ r.res.low = 0
    /\ r.res.high = n - 1

\* the response r is the validation error for an assessment without boxes
NoBoxesError(r) ==
    /\ r.pc = "done"
    /\ r.res.status = "http_error"
    /\ r.res.code = 400
    /\ r.res.detail = "no_boxes"

\* slot s receives a partial update request in this step
ReceivesPartialUpdate(s) == req[s].pc = "idle" /\ req'[s].op = "partial_update"

\* the boxes stored in assessment row a
StoredBoxes(a) == BoxesOrEmpty(assessments[a].ai_bounding_boxes)

SomeBoxIncomplete(items) ==
    \E k \in 1..Len(items) : \E f \in {"x", "y", "width", "height", "type", "confidence"} :
        f \notin DOMAIN items[k]

\* C7: a full replacement in which any box lacks x, y, width, height, type or
\* confidence is rejected as a whole: the call ends with an error at the step
\* that reads the boxes and no step of it writes the assessment, so neither
\* the list nor a description carried by the same request changes
IncompleteBoxRejectsWholeUpdate ==
    [][\A s \in Slots :
        (/\ req'[s].op = "update_assessment"
         /\ req'[s] # req[s]
         /\ "updates" \in DOMAIN req'[s].arg
         /\ req'[s].arg.updates.ai_bounding_boxes.kind = "list"
         /\ SomeBoxIncomplete(req'[s].arg.updates.ai_bounding_boxes.items)) =>
            /\ assessments' = assessments
            /\ req[s].pc = "ua_fetch"
            /\ req'[s].pc = "done"
            /\ req'[s].res.status = "http_error"
            /\ req'[s].res.detail \in {"missing_field", "assessment"}
      ]_vars

\* a request with a description and an incomplete box was rejected, and the
\* image's assessment still has no description and its three boxes
DescriptionWithIncompleteBoxRejected ==
    \E s \in Slots :
        /\ req[s].op = "update_assessment"
        /\ req[s].pc = "done"
        /\ "updates" \in DOMAIN req[s].arg
        /\ req[s].arg.updates.description = "note"
        /\ SomeBoxIncomplete(req[s].arg.updates.ai_bounding_boxes.items)
        /\ req[s].res = HTTPException(400, "missing_field")
        /\ AssessmentsOf(req[s].arg.image_id) # {}
        /\ \A a \in AssessmentsOf(req[s].arg.image_id) :
              /\ assessments[a].description = Null
              /\ StoredBoxes(a) = <<BoxA, BoxB, BoxC>>

\* C8: a detector that returns no box is a success: detection ends the call
\* only by raising and marks no image FAILED, the assessment saved holds the
\* empty list, the image becomes ANALYZED and the result is "analyzed"
EmptyDetectionIsSuccess ==
    [][\A s \in Slots :
        /\ Takes(s, "an_detect") =>
              /\ images' = images
              /\ req'[s].pc = "done" => req'[s].res.detector = "raise"
        /\ (/\ Takes(s, "an_save")
            /\ req[s].loc.boxes = <<>>
            /\ req'[s].pc = "an_mark"
            /\ req'[s].loc.ass_id \in DOMAIN assessments') =>
              assessments'[req'[s].loc.ass_id].ai_bounding_boxes = JList(<<>>)
        /\ (/\ Takes(s, "an_mark")
            /\ req[s].loc.boxes = <<>>
            /\ req[s].arg.image_id \in DOMAIN images) =>
              images'[req[s].arg.image_id].status = "analyzed"
        /\ (Takes(s, "an_bump") /\ req[s].loc.boxes = <<>>) =>
              /\ req'[s].res.status = "analyzed"
              /\ req'[s].res.ai_bounding_boxes = <<>>
      ]_vars

\* an analyze that found no box has returned "analyzed": the image is
\* ANALYZED and its assessment holds the empty list
AnalyzedWithNoBoxes ==
    \E s \in Slots :
        /\ req[s].op = "analyze"
        /\ req[s].pc = "done"
        /\ req[s].res.status = "analyzed"
        /\ req[s].res.ai_bounding_boxes = <<>>
        /\ req[s].arg.image_id \in DOMAIN images
        /\ images[req[s].arg.image_id].status = "analyzed"
        /\ req[s].res.assessment_id \in DOMAIN assessments
        /\ assessments[req[s].res.assessment_id].ai_bounding_boxes = JList(<<>>)

\* C9: a successful ingestion has created exactly one inspection, with status
\* UPLOADED and processed_images 0, and one image row per descriptor the
\* parser yielded, each UPLOADED and carrying its descriptor's blade and
\* surface; total_images is the number of image rows created
IngestionCreatesOneRowPerDescriptor ==
    /\ [](\A s \in Slots :
            (req[s].op = "upload" /\ req[s].pc = "done" /\ req[s].res.status = "uploaded") =>
                LET r == req[s].res
                    i == req[s].res.inspection_id
                IN
                /\ i \in DOMAIN inspections
                /\ inspections[i].status = "uploaded"
                /\ inspections[i].processed_images = 0
                /\ ImagesOf(i) = r.created
                /\ Cardinality(r.created) = Len(r.imgs)
                /\ inspections[i].total_images = Cardinality(r.created)
                /\ r.total_images = Cardinality(r.created)
                /\ \A k \in 1..Len(r.imgs) : \E m \in r.created :
                      /\ images[m].blade = r.imgs[k].blade
                      /\ images[m].surface = r.imgs[k].surface
                      /\ images[m].file_name = r.imgs[k].filename
                /\ \A m \in r.created : images[m].status = "uploaded")
    /\ [][\A s \in Slots :
            Steps(s, "upload") =>
                IF req[s].pc = "up_insert_inspection"
                THEN /\ Cardinality(DOMAIN inspections' \ DOMAIN inspections) = 1
                     /\ \A i \in DOMAIN inspections : inspections'[i] = inspections[i]
                ELSE inspections' = inspections
       ]_vars

\* the archive with BladeA/PS/img1.jpg and BladeA/LE/img2.jpg was ingested:
\* the inspection counts two images and has a PS row and an LE row of BladeA
TwoImagesIngested ==
    \E s \in Slots :
        /\ req[s].op = "upload"
        /\ req[s].pc = "done"
        /\ req[s].res.status = "uploaded"
        /\ inspections[req[s].res.inspection_id].total_images = 2
        /\ {<<images[m].blade, images[m].surface>> : m \in ImagesOf(req[s].res.inspection_id)}
              = {<<"BladeA", "PS">>, <<"BladeA", "LE">>}

\* C10: a successful analyze sets the image's status to ANALYZED and its
\* checked_flag to "Processed", adds exactly 1 to the parent inspection's
\* processed_images and sets that inspection's status to PROCESSING (and
\* touches no other inspection); on an inspection still UPLOADED, that is
\* after its first analyze, processed_images is then 1
AnalyzeMarksImageAndCountsOnce ==
    [][\A s \in Slots :
        /\ (Takes(s, "an_mark") /\ req[s].arg.image_id \in DOMAIN images) =>
              /\ images'[req[s].arg.image_id].status = "analyzed"
              /\ images'[req[s].arg.image_id].checked_flag = "Processed"
        /\ Takes(s, "an_bump") =>
              LET i == req[s].loc.img.inspection_id IN
              /\ req'[s].res.status = "analyzed"
              /\ DOMAIN inspections' = DOMAIN inspections
              /\ \A j \in DOMAIN inspections \ {i} : inspections'[j] = inspections[j]
              /\ i \in DOMAIN inspections =>
                    /\ inspections'[i].processed_images = inspections[i].processed_images + 1
                    /\ inspections'[i].status = "processing"
                    /\ inspections[i].status = "uploaded" => inspections'[i].processed_images = 1
        /\ (Steps(s, "analyze") /\ req'[s].pc = "done" /\ req'[s].res.status = "analyzed") =>
              req[s].pc = "an_bump"
        /\ (Steps(s, "analyze") /\ req[s].pc # "an_bump") => inspections' = inspections
      ]_vars

\* the first analyze of the ingested inspection has returned: the image is
\* ANALYZED and "Processed", the inspection is PROCESSING and counts 1
FirstAnalyzeCounted ==
    \E s \in Slots :
        /\ req[s].op = "analyze"
        /\ req[s].pc = "done"
        /\ req[s].res.status = "analyzed"
        /\ req[s].arg.image_id \in DOMAIN images
        /\ images[req[s].arg.image_id].status = "analyzed"
        /\ images[req[s].arg.image_id].checked_flag = "Processed"
        /\ inspections[images[req[s].arg.image_id].inspection_id].processed_images = 1
        /\ inspections[images[req[s].arg.image_id].inspection_id].status = "processing"

\* the fixed taxonomy as sets
Blades == {VALID_BLADES[i] : i \in 1..Len(VALID_BLADES)}
Surfaces == {VALID_SURFACES[i] : i \in 1..Len(VALID_SURFACES)}

\* the files of tree at root/<Blade>/<Surface>/ with an allowed extension
ValidAt(tree, root) ==
    {f \in tree : /\ Len(f.dirs) = Len(root) + 2
                  /\ SubSeq(f.dirs, 1, Len(root)) = root
                  /\ f.dirs[Len(root) + 1] \in Blades
                  /\ f.dirs[Len(root) + 2] \in Surfaces
                  /\ Lower(f.suffix) \in VALID_IMAGE_EXTENSIONS}

\* the valid files of tree: directly at the root or under one folder
ValidAnywhere(tree) ==
    ValidAt(tree, <<>>) \cup UNION {ValidAt(tree, <<w>>) : w \in TopDirs(tree)}

\* the descriptor that stands for file f
DescriptorOf(f) ==
    [blade |-> f.dirs[Len(f.dirs) - 1], surface |-> f.dirs[Len(f.dirs)],
     filename |-> [stem |-> f.stem, suffix |-> f.suffix]]

\* imgs holds exactly one descriptor for each of files and nothing else
OnePerFile(imgs, files) ==
    /\ Len(imgs) = Cardinality(files)
    /\ {imgs[k] : k \in 1..Len(imgs)} = {DescriptorOf(f) : f \in files}

\* the files the parser is to report: the valid files at the root, and when
\* the root has none and holds exactly one directory, the valid files under it
ParserScope(tree) ==
    IF ValidAt(tree, <<>>) # {} THEN ValidAt(tree, <<>>)
    ELSE IF Cardinality(TopDirs(tree)) = 1
         THEN ValidAt(tree, <<CHOOSE d \in TopDirs(tree) : TRUE>>)
         ELSE {}

\* slot s holds the result of a parser run
Parsed(s) == req[s].op = "parse" /\ req[s].pc = "done"

\* C11: for every extracted archive holding at least one valid
\* <Blade>/<Surface>/<file> path, at the root or under one folder, the parser
\* returns exactly one descriptor per valid file and none for any other file
ParserReportsEveryValidFile ==
    \A s \in Slots :
        Parsed(s) /\ ValidAnywhere(req[s].arg.tree) # {}
            => OnePerFile(req[s].res.imgs, ValidAnywhere(req[s].arg.tree))

\* C11, amended: the parser returns exactly one descriptor per valid file at
\* the root; when the root has no valid file and holds exactly one directory,
\* exactly one per valid file under that directory; and nothing otherwise.
\* No file outside the taxonomy or with a disallowed extension is reported.
ParserReportsItsScope ==
    \A s \in Slots :
        Parsed(s) => OnePerFile(req[s].res.imgs, ParserScope(req[s].arg.tree))

\* a wrapped archive with a valid and a disallowed file was parsed to one
\* descriptor
WrappedArchiveParsed ==
    \E s \in Slots :
        /\ Parsed(s)
        /\ ValidAt(req[s].arg.tree, <<>>) = {}
        /\ Cardinality(TopDirs(req[s].arg.tree)) = 1
        /\ Cardinality(req[s].arg.tree) = 2
        /\ Len(req[s].res.imgs) = 1

\* slot s holds the response of an ingestion request
Ingestion(s) == req[s].op = "upload" /\ req[s].pc = "done"

\* C12: when an ingestion request has ended, on any path (oversize, not an
\* archive, turbine not found, no image found, failed copy or insert,
\* success), neither its temp archive nor its extraction directory remains
IngestionLeavesNoScratch ==
    \A s \in Slots :
        Ingestion(s) =>
            /\ TmpZip(req[s].arg.tmp_zip) \notin disk
            /\ ExtractDir(req[s].arg.tmp_zip) \notin disk

\* the copies of image files under the storage root
RawImages(d) == {e \in d : e.kind = "raw_image"}

\* slot s holds the structural-validation error of an ingestion
StructureError(s) == Ingestion(s) /\ req[s].res = HTTPException(400, "structure")

\* C13: an ingestion whose extracted archive holds no image file under the
\* taxonomy ends at the parser with the structural-validation error; up to
\* and including that step the request creates no inspection row, no image
\* row and no permanent file; an archive with only loose or out-of-taxonomy
\* files is rejected like any other, never ingested
ZeroImagesRejectsIngestion ==
    [][\A s \in Slots :
        /\ (Takes(s, "up_turbine") /\ req[s].arg.turbine_id \in turbines) =>
              /\ parse_zip(req'[s].loc.tree) = <<>> <=> StructureError(s)'
              /\ ValidAnywhere(req'[s].loc.tree) = {} => StructureError(s)'
        /\ ((Steps(s, "upload") /\ req[s].pc \in {"up_stream", "up_turbine"})
               \/ (req[s].pc = "idle" /\ req'[s].op = "upload")) =>
              /\ inspections' = inspections
              /\ images' = images
              /\ RawImages(disk') = RawImages(disk)
    ]_vars

\* the archive with a loose photo and a BladeD folder was rejected and the
\* database and the storage root are empty
LooseArchiveRejected ==
    \E s \in Slots :
        /\ StructureError(s)
        /\ req[s].loc.tree = ArchiveLoose
        /\ inspections = << >>
        /\ images = << >>
        /\ RawImages(disk) = {}

\* slot s streams the body of an ingestion request
StreamsBody(s) == Takes(s, "up_stream")

\* the step of slot s has ended its ingestion with the size error
TooLarge(s) == req'[s].pc = "done" /\ req'[s].res = HTTPException(400, "too_large")

\* C14: the size ceiling is enforced while the body arrives: an upload is
\* rejected for size exactly when its body is longer than 500 MiB, and then
\* at the read that takes the total over 500 MiB, that chunk unwritten and no
\* further chunk read; the temp file is removed and no inspection or image row
\* is created. A body of at most 500 MiB is never rejected for size.
SizeCeilingEnforcedMidStream ==
    [][\A s \in Slots :
        StreamsBody(s) =>
            LET size == req'[s].loc.body.size
                stream == req'[s].loc.stream
            IN
            /\ TooLarge(s) <=> size > 500 * 1024 * 1024
            /\ TooLarge(s) =>
                  /\ stream.reads = 501
                  /\ stream.written = 500 * 1024 * 1024
                  /\ stream.reads * CHUNK < size + CHUNK
                  /\ TmpZip(req[s].arg.tmp_zip) \in disk
                  /\ TmpZip(req[s].arg.tmp_zip) \notin disk'
                  /\ inspections' = inspections
                  /\ images' = images
            /\ ~TooLarge(s) => stream.written = size
    ]_vars

\* a body of 500 MiB + 2 MiB was rejected for size after 501 reads
TwoChunksTooLargeRejected ==
    \E s \in Slots :
        /\ Ingestion(s)
        /\ req[s].res = HTTPException(400, "too_large")
        /\ req[s].loc.body.size = MAX_ZIP_SIZE + 2 * CHUNK
        /\ req[s].loc.stream.reads = 501
        /\ TmpZip(req[s].arg.tmp_zip) \notin disk

\* a body of exactly 500 MiB was accepted by the size check
ExactlyCeilingAccepted ==
    \E s \in Slots :
        /\ req[s].op = "upload"
        /\ req[s].pc = "up_turbine"
        /\ req[s].loc.body.size = MAX_ZIP_SIZE
        /\ req[s].loc.stream.written = MAX_ZIP_SIZE

\* field_updates has a key outside the six allowed fields
HasUnknownKey(field_updates) == ~(DOMAIN field_updates \subseteq allowed_fields)

\* C15: a partial update whose field_updates holds a key outside x, y, width,
\* height, type, confidence ends with an error at the step that reads the
\* updates, before any write: no assessment changes, the allowed fields sent
\* along included, and no request with such a key ever reaches the write
UnknownKeyRejectsWholePatch ==
    /\ [](\A s \in Slots :
            (req[s].op = "partial_update" /\ req[s].pc \in {"pu_write", "pu_reread"})
                => ~HasUnknownKey(req[s].arg.field_updates))
    /\ [][\A s \in Slots :
            (Takes(s, "pu_fetch") /\ HasUnknownKey(req'[s].arg.field_updates)) =>
                /\ req'[s].pc = "done"
                /\ req'[s].res.status = "http_error"
                /\ assessments' = assessments
       ]_vars

\* a patch of box 0 with type and the unknown key severity was refused for the
\* key, and the stored box still has its own type
TypeWithSeverityRefused ==
    \E s \in Slots :
        /\ req[s].op = "partial_update"
        /\ req[s].pc = "done"
        /\ req[s].res = [status |-> "http_error", code |-> 400, detail |-> "field"]
        /\ req[s].arg.field_updates = [type |-> "LV_1", severity |-> 3]
        /\ \E a \in DOMAIN assessments :
              /\ assessments[a].inspection_image_id = req[s].arg.image_id
              /\ StoredBoxes(a)[req[s].arg.box_index + 1].type # "LV_1"
              /\ "severity" \notin DOMAIN StoredBoxes(a)[req[s].arg.box_index + 1]

\* slot s takes a step of one of the two edit operations
Edits(s) == Steps(s, "update_assessment") \/ Steps(s, "partial_update")

\* C16: an edit (update_assessment, partial update) on an image that has no
\* assessment fails with not-found; no step of an edit adds or removes an
\* assessment row; a new assessment row appears only at the save step of an
\* analyze call
EditsNeverCreateAssessments ==
    [][/\ \A s \in Slots :
            /\ Edits(s) => DOMAIN assessments' = DOMAIN assessments
            /\ (/\ Edits(s)
                /\ req[s].pc \in {"ua_fetch", "pu_fetch"}
                /\ AssessmentsOf(req[s].arg.image_id) = {}) =>
                    /\ req'[s].pc = "done"
                    /\ req'[s].res = HTTPException(404, "assessment")
                    /\ assessments' = assessments
       /\ (DOMAIN assessments' \ DOMAIN assessments # {}) =>
            \E s \in Slots : req[s].op = "analyze" /\ Takes(s, "an_save")
    ]_vars

\* an edit of an ingested image that was never analyzed was answered with
\* not-found and the image still has no assessment
EditOfUnanalyzedImageNotFound ==
    \E s \in Slots :
        /\ req[s].op \in {"update_assessment", "partial_update"}
        /\ req[s].pc = "done"
        /\ req[s].res = HTTPException(404, "assessment")
        /\ req[s].arg.image_id \in DOMAIN images
        /\ AssessmentsOf(req[s].arg.image_id) = {}

\* C17: the stored ai_bounding_boxes of every assessment is a list, possibly
\* empty, in every reachable state: an update never replaces it by null or by
\* a value that is not a list
StoredBoxesAlwaysAList ==
    \A a \in DOMAIN assessments : ~assessments[a].ai_bounding_boxes.isnull

\* the body carries a description and no ai_bounding_boxes
DescriptionOnly(updates) ==
    updates.description # Unset /\ updates.ai_bounding_boxes.kind = "unset"

\* the body carries neither field
NeitherField(updates) ==
    updates.description = Unset /\ updates.ai_bounding_boxes.kind = "unset"

\* C18: the write of an update_assessment that carries only description sets
\* the stored description to the one sent and leaves the stored box list (and
\* every other row) as it was; an update_assessment that carries neither
\* description nor ai_bounding_boxes on an image with an assessment fails
\* with the nothing-to-update error and changes no row, updated_at included
DescriptionOnlyKeepsBoxes ==
    [][\A s \in Slots :
        /\ (/\ Takes(s, "ua_write")
            /\ DescriptionOnly(req[s].arg.updates)
            /\ req[s].loc.assessment_id \in DOMAIN assessments) =>
              LET a == req[s].loc.assessment_id IN
              /\ assessments'[a].description = req[s].arg.updates.description
              /\ assessments'[a].ai_bounding_boxes = assessments[a].ai_bounding_boxes
              /\ DOMAIN assessments' = DOMAIN assessments
              /\ \A b \in DOMAIN assessments \ {a} : assessments'[b] = assessments[b]
        /\ (/\ Takes(s, "ua_fetch")
            /\ AssessmentsOf(req[s].arg.image_id) # {}
            /\ NeitherField(req'[s].arg.updates)) =>
              /\ req'[s].pc = "done"
              /\ req'[s].res = HTTPException(400, "nothing_to_update")
              /\ assessments' = assessments
        /\ (req[s].op = "update_assessment" /\ req[s].pc \in {"ua_write", "ua_reread"}) =>
              ~NeitherField(req[s].arg.updates)
    ]_vars

\* a description-only update has returned: the description is the one sent
\* and the three detected boxes are still stored
NoteAddedBoxesKept ==
    \E s \in Slots :
        /\ req[s].op = "update_assessment"
        /\ req[s].pc = "done"
        /\ req[s].res.status = "ok"
        /\ DescriptionOnly(req[s].arg.updates)
        /\ assessments[req[s].res.assessment_id].description = "note"
        /\ assessments[req[s].res.assessment_id].ai_bounding_boxes = JList(<<BoxA, BoxB, BoxC>>)

\* an update with an empty body was answered with nothing-to-update
EmptyUpdateRefused ==
    \E s \in Slots :
        /\ req[s].op = "update_assessment"
        /\ req[s].pc = "done"
        /\ req[s].res = HTTPException(400, "nothing_to_update")
        /\ NeitherField(req[s].arg.updates)

\* slot s holds the document of a results request
ResultsReturned(s) ==
    req[s].op = "get_results" /\ req[s].pc = "done" /\ req[s].res.status = "ok"

\* the image ids a list of entries names
ListedIds(entries) == {entries[k].image_id : k \in 1..Len(entries)}

\* the entries built so far after a step of the assessment loop of slot s
OutImagesAfter(s) ==
    IF req'[s].pc = "done" THEN req'[s].res.images ELSE req'[s].loc.out_images

\* C19: the results document of an existing inspection, whatever part of it
\* is processed, lists every image row of the inspection exactly once;
\* statistics.total_images is the number of listed images and
\* statistics.analyzed_images the number of listed images with status
\* ANALYZED; an image that has no assessment when its assessments are
\* fetched gets an empty assessments list, and the request does not fail
ResultsListEveryImageOnce ==
    /\ [](\A s \in Slots :
            ResultsReturned(s) =>
                LET r == req[s].res IN
                /\ Cardinality(ListedIds(r.images)) = Len(r.images)
                /\ ListedIds(r.images) = ImagesOf(req[s].arg.inspection_id)
                /\ r.statistics.total_images = Len(r.images)
                /\ r.statistics.analyzed_images =
                      Cardinality({k \in 1..Len(r.images) : r.images[k].status = "analyzed"}))
    /\ [][\A s \in Slots :
            (req[s].op = "get_results" /\ Takes(s, "br_assessments")) =>
                LET k == Len(req[s].loc.out_images) + 1
                    img == req[s].loc.fetched[k]
                    out == OutImagesAfter(s)
                IN
                /\ Len(out) = k
                /\ \A j \in 1..(k - 1) : out[j] = req[s].loc.out_images[j]
                /\ out[k].image_id = img.id
                /\ out[k].status = img.status
                /\ Len(out[k].assessments) = Cardinality(AssessmentsOf(img.id))
                /\ AssessmentsOf(img.id) = {} => out[k].assessments = <<>>
                /\ req'[s].pc = "done" => req'[s].res.status = "ok"
       ]_vars

\* the results of an inspection with one of its two images analyzed: two
\* entries, one with an assessment and one with an empty list, and the
\* statistics count two images and one analyzed
HalfProcessedResults ==
    \E s \in Slots :
        /\ ResultsReturned(s)
        /\ req[s].res.statistics = [total_images |-> 2, analyzed_images |-> 1]
        /\ \E k \in 1..2 : req[s].res.images[k].assessments = <<>>
        /\ \E k \in 1..2 : /\ req[s].res.images[k].status = "analyzed"
                           /\ Len(req[s].res.images[k].assessments) = 1

\* the caller of the finished request in slot s had passed check_turbine_access
\* for the turbine that owns what the request read: the handlers that call it
\* go on only when it passed, stream_image serves whoever asks
PassedAccessCheck(s) ==
    IF req[s].op = "stream_image" THEN req[s].arg.caller = "viewer" ELSE TRUE

\* C20: every inspection operation checks the caller's access to the owning
\* turbine before it reads or changes inspection, image or assessment state
\* for the caller: a request that was answered with anything but an error was
\* made by a caller who passed that check
NoAnswerWithoutAccessCheck ==
    \A s \in Slots :
        (req[s].pc = "done" /\ req[s].res.status # "http_error") => PassedAccessCheck(s)

\* the image rows of inspection_id after the step
ImagesOfNext(inspection_id) ==
    {i \in DOMAIN images' : images'[i].inspection_id = inspection_id}

\* C21: a bulk delete removes the listed images that exist and belong to the
\* inspection, together with their assessments, skips every other listed id
\* without an error or an effect, and when it has finished the inspection's
\* total_images equals the number of image rows that remain
BulkDeleteLeavesTotalEqualToRemaining ==
    [][\A s \in Slots :
          Steps(s, "delete_images") =>
              LET a == req[s].arg IN
              /\ \A i \in DOMAIN images \ DOMAIN images' :
                     /\ \E k \in 1..Len(a.image_ids) : a.image_ids[k] = i
                     /\ images[i].inspection_id = a.inspection_id
                     /\ \A d \in DOMAIN assessments' :
                            assessments'[d].inspection_image_id # i
              /\ (req'[s].pc = "done" /\ req'[s].res.status # "http_error") =>
                     /\ req'[s].res.status = "ok"
                     /\ \A k \in 1..Len(a.image_ids) :
                            a.image_ids[k] \notin ImagesOfNext(a.inspection_id)
                     /\ inspections'[a.inspection_id].total_images
                            = Cardinality(ImagesOfNext(a.inspection_id))
       ]_vars

\* the parts of the stem of name that consist only of decimal digits
QualifyingParts(name) ==
    {p \in SplitParts(PathStem(name)) :
        /\ p.from <= p.to
        /\ \A k \in p.from..p.to : PathStem(name)[k] \in DOMAIN DecimalValueOf}

\* C22: the position percentage of a file is the numeric value of the last
\* underscore-separated segment of the stem that consists only of digits, and
\* is null, without an error, when no segment qualifies
PositionIsLastDigitSegment ==
    \A s \in Slots :
        (req[s].op = "position" /\ req[s].pc = "done") =>
            LET name == req[s].arg.name
                stem == PathStem(name)
                q == QualifyingParts(name)
            IN /\ req[s].res.status = "returned"
               /\ q = {} => req[s].res.position_pct = NoPosition
               /\ q # {} =>
                    LET p == CHOOSE x \in q : \A y \in q : y.from <= x.from
                    IN req[s].res.position_pct
                           = Position(FloatOf(SubSeq(stem, p.from, p.to)))

\* the same for the names whose characters are letters, dots, underscores and
\* decimal digits only
PositionIsLastDigitSegmentOfPlainNames ==
    \A s \in Slots :
        (/\ req[s].op = "position" /\ req[s].pc = "done"
         /\ \A k \in 1..Len(req[s].arg.name) : req[s].arg.name[k] # "sup2") =>
            LET name == req[s].arg.name
                stem == PathStem(name)
                q == QualifyingParts(name)
            IN /\ req[s].res.status = "returned"
               /\ q = {} => req[s].res.position_pct = NoPosition
               /\ q # {} =>
                    LET p == CHOOSE x \in q : \A y \in q : y.from <= x.from
                    IN req[s].res.position_pct
                           = Position(FloatOf(SubSeq(stem, p.from, p.to)))

\* the status of image i changes in this step
ImageStatusChanges(i) ==
    i \in DOMAIN images /\ i \in DOMAIN images' /\ images'[i].status # images[i].status

\* an analyze call on image i takes a step
AnalyzeStepOn(i) ==
    \E s \in Slots : Steps(s, "analyze") /\ req[s].arg.image_id = i

\* C23: an image's status changes only as a step of the analyze operation and
\* only along UPLOADED -> PROCESSING, PROCESSING -> ANALYZED and
\* PROCESSING -> FAILED
ImageStatusFollowsThreeTransitions ==
    [][\A i \in ImageIdInputs :
          ImageStatusChanges(i) =>
              /\ AnalyzeStepOn(i)
              /\ <<images[i].status, images'[i].status>> \in
                     {<<"uploaded", "processing">>, <<"processing", "analyzed">>,
                      <<"processing", "failed">>}
       ]_vars

\* C23 as the code has it: an image's status changes only as a step of an
\* analyze call on that image; the call first sets it to PROCESSING whatever
\* it was, and later takes it from PROCESSING to ANALYZED or FAILED
ImageStatusChangesOnlyInAnalyze ==
    [][\A i \in ImageIdInputs :
          ImageStatusChanges(i) =>
              /\ AnalyzeStepOn(i)
              /\ \/ images'[i].status = "processing"
                 \/ /\ images[i].status = "processing"
                    /\ images'[i].status \in {"analyzed", "failed"}
       ]_vars

\* an image that was analyzed is PROCESSING again, its assessment still stored,
\* while a second analysis of it waits for the detector
AnalyzedImageProcessingAgain ==
    \E s \in Slots :
        /\ req[s].op = "analyze" /\ req[s].pc = "an_detect"
        /\ req[s].arg.image_id \in DOMAIN images
        /\ images[req[s].arg.image_id].status = "processing"
        /\ images[req[s].arg.image_id].checked_flag = "Processed"
        /\ AssessmentsOf(req[s].arg.image_id) # {}

\* the status of inspection i changes in this step
InspectionStatusChanges(i) ==
    /\ i \in DOMAIN inspections /\ i \in DOMAIN inspections'
    /\ inspections'[i].status # inspections[i].status

\* C24: an inspection's status stays as it is (UPLOADED from creation) until
\* a successful analyze of one of its images, whose last step advances it to
\* PROCESSING, or until an inspection metadata update writes the status of
\* its body; nothing else changes it, so COMPLETED and FAILED come only from
\* a metadata update
InspectionStatusSetByAnalyzeOrMetadataUpdate ==
    [][\A i \in InspectionIdInputs :
          /\ InspectionStatusChanges(i) =>
                \/ \E s \in Slots :
                      /\ Takes(s, "an_bump")
                      /\ req[s].loc.img.inspection_id = i
                      /\ req'[s].res.status = "analyzed"
                      /\ inspections'[i].status = "processing"
                \/ \E s \in Slots :
                      /\ Takes(s, "ui_write")
                      /\ req[s].arg.inspection_id = i
                      /\ inspections'[i].status = req[s].arg.updates.status
          /\ \A s \in Slots :
                (/\ Takes(s, "an_bump")
                 /\ req[s].loc.img.inspection_id = i
                 /\ i \in DOMAIN inspections
                 /\ inspections[i].status = "uploaded")
                    => inspections'[i].status = "processing"
       ]_vars

\* the first analyze of an image of an uploaded inspection has ended with
\* success and the inspection is PROCESSING
FirstAnalyzeAdvancedInspection ==
    \E s \in Slots :
        /\ req[s].op = "analyze" /\ req[s].pc = "done"
        /\ req[s].res.status = "analyzed"
        /\ inspections[1].status = "processing"
        /\ inspections[1].processed_images = 1

\* C25: analyze writes PROCESSING as the parent inspection's status whatever
\* it was: an inspection set to COMPLETED or FAILED by a metadata update is
\* PROCESSING again after the next successful analyze of one of its images
AnalyzeAlwaysWritesProcessing ==
    [][\A s \in Slots :
          Takes(s, "an_bump") =>
              LET i == req[s].loc.img.inspection_id IN
              /\ req'[s].pc = "done" /\ req'[s].res.status = "analyzed"
              /\ i \in DOMAIN inspections => inspections'[i].status = "processing"
       ]_vars

\* a metadata update wrote COMPLETED or FAILED and has not answered yet, an
\* analyze has since ended with success, and the inspection is PROCESSING
ClosedInspectionReopenedByAnalyze ==
    \E s, t \in Slots :
        /\ req[s].op = "analyze" /\ req[s].pc = "done" /\ req[s].res.status = "analyzed"
        /\ req[t].op = "update_inspection" /\ req[t].pc = "ui_reread"
        /\ req[t].arg.updates.status \in {"completed", "failed"}
        /\ inspections[req[t].arg.inspection_id].status = "processing"

\* the analyze calls that count an image of inspection i in this step
CountingSteps(i) ==
    {s \in Slots : Takes(s, "an_bump") /\ req[s].loc.img.inspection_id = i}

\* C26: the processed-image counter loses no increment: in every interleaving
\* of analyze calls each call that ends with status analyzed adds exactly one
\* to the counter as it stands at that moment, and a call that ends in any
\* other way, and every other step, adds nothing
ProcessedImagesCountsEveryAnalyzedCall ==
    [][/\ \A i \in DOMAIN inspections :
            i \in DOMAIN inspections' =>
                inspections'[i].processed_images
                    = inspections[i].processed_images + Cardinality(CountingSteps(i))
       /\ \A s \in Slots :
            (Steps(s, "analyze") /\ req'[s].pc = "done") =>
                (req'[s].res.status = "analyzed" <=> Takes(s, "an_bump"))
      ]_vars

\* two analyze calls of one inspection in flight: the first has ended and is
\* counted on top of the earlier analysis, the second is about to be counted
TwoAnalyzeCallsBothCounting ==
    \E s, t \in Slots :
        /\ req[s].op = "analyze" /\ req[s].pc = "done" /\ req[s].res.status = "analyzed"
        /\ req[t].op = "analyze" /\ req[t].pc = "an_bump"
        /\ inspections[req[t].loc.img.inspection_id].processed_images = 2

\* the patch in slot s has written its list and not yet answered
PatchWritten(s) == req[s].op = "partial_update" /\ req[s].pc = "pu_reread"

\* the stored list of assessment a carries the change of the patch in slot s
\* at its index
CarriesPatch(a, s) ==
    LET stored == BoxesOrEmpty(assessments[a].ai_bounding_boxes)
        k == req[s].arg.box_index + 1
    IN /\ k <= Len(stored)
       /\ \A f \in DOMAIN req[s].arg.field_updates :
              /\ f \in DOMAIN stored[k]
              /\ stored[k][f] = req[s].arg.field_updates[f]

\* C27: two updatePartialBox calls on the same image that target different
\* box indices both take effect in every interleaving: once both have
\* written, the stored list carries each call's change at its index
BothPartialUpdatesTakeEffect ==
    \A s, t \in Slots :
        (/\ s # t
         /\ PatchWritten(s) /\ PatchWritten(t)
         /\ req[s].loc.assessment_id = req[t].loc.assessment_id
         /\ req[s].arg.box_index # req[t].arg.box_index
         /\ req[s].loc.assessment_id \in DOMAIN assessments)
            => /\ CarriesPatch(req[s].loc.assessment_id, s)
               /\ CarriesPatch(req[s].loc.assessment_id, t)

\* the update_assessment in slot t carried a description only and has written it
DescriptionWritten(t) ==
    /\ req[t].op = "update_assessment"
    /\ \/ req[t].pc = "ua_reread"
       \/ req[t].pc = "done" /\ req[t].res.status = "ok"
    /\ DescriptionOnly(req[t].arg.updates)

\* the assessment row the update_assessment in slot t wrote
WrittenRow(t) ==
    IF req[t].pc = "ua_reread" THEN req[t].loc.assessment_id ELSE req[t].res.assessment_id

\* C28: a description written by a description-only update_assessment is not
\* lost to a concurrent analyze of the same image: while the analyze call is
\* in flight, at whichever of its steps, the description stored in the row
\* the update wrote is the one it wrote
DescriptionSurvivesConcurrentAnalyze ==
    \A s, t \in Slots :
        (/\ DescriptionWritten(t)
         /\ req[s].op = "analyze"
         /\ req[s].arg.image_id = req[t].arg.image_id
         /\ WrittenRow(t) \in DOMAIN assessments)
            => assessments[WrittenRow(t)].description = req[t].arg.updates.description

\* an analyze read the row before the update wrote its note and has saved its
\* detection since; the note is stored
NoteKeptAcrossConcurrentAnalyze ==
    \E s, t \in Slots :
        /\ DescriptionWritten(t)
        /\ req[s].op = "analyze" /\ req[s].pc = "an_mark"
        /\ req[s].arg.image_id = req[t].arg.image_id
        /\ req[s].loc.user_description = Null
        /\ \E a \in AssessmentsOf(req[t].arg.image_id) :
               /\ assessments[a].description = "note"
               /\ a = req[s].loc.ass_id

\* the requests inside the detector
InDetector == {t \in Slots : req[t].pc = "an_predict"}

====
